---- MODULE Spec2Model ----
(***************************************************************************)
(* Model of the FCPX XML adapter (package fcpxml): Decoder.Decode, from    *)
(* the raw XML tree to the OTIO timeline (Spec); the rational time codec,  *)
(* parseRationalTime and formatRationalTime (CodecSpec); Encoder.Encode,   *)
(* from the OTIO timeline to the FCPXML document (EncSpec); Encode         *)
(* followed by Decode of the bytes written (RoundTripSpec).                *)
(*                                                                         *)
(* Conventions.                                                            *)
(*  - A Go pointer is a sequence of length 0 (nil) or 1 (the pointee).     *)
(*  - A time attribute is a sequence of one-character strings, so that     *)
(*    parseRationalTime works on the text as the code does.                *)
(*  - A raw XML element is a record of its tag, attributes and children;   *)
(*    the typed document model is what DecodeElement keeps of it.          *)
(***************************************************************************)
EXTENDS Integers, Sequences, FiniteSets, TLC

VARIABLES
    doc,         \* the XML document handed to the decoder (input, never changed)
    pc,          \* position of Decode: unmarshal, resolve, convert, attach, done, failed
    cur,         \* unmarshal: index of the project element being decoded
    pos,         \* Spine.UnmarshalXML: index of the next child token, 0 outside a spine
    items,       \* Spine.UnmarshalXML: s.Items of the spine being decoded
    spines,      \* unmarshal: per decoded project, pointer to its Spine.Items
    project,     \* convertToTimeline: the resolved *Project
    idx,         \* convertSequenceToTracks: index of the next spine item
    videoTrack,  \* convertSequenceToTracks: children of the "Video 1" track
    audioTrack,  \* convertSequenceToTracks: children of the "Audio 1" track
    timeline,    \* the *gotio.Timeline being built / returned (nil on failure)
    err,         \* the error returned by Decode: the parts of its message, <<>> for nil
    cpc,         \* codec: format, parse, done; idle outside CodecSpec
    rtime,       \* codec: the opentime.RationalTime handed to formatRationalTime
    text,        \* codec: the string handed to parseRationalTime
    parsed,      \* codec: what parseRationalTime returned, (time, error)
    epc,         \* position of Encode: start, flatten, items, sequence, write, done, failed
    tl,          \* the *opentimelineio.Timeline handed to Encode (input, never changed)
    ci,          \* convertTracksToSequence: index of the loop under way
    videoItems,  \* convertTracksToSequence: the flattened children of the video tracks
    audioItems,  \* convertTracksToSequence: the flattened children of the audio tracks
    spineItems,  \* convertTracksToSequence: spine.Items
    document,    \* convertFromTimeline: the *FCPXML returned (nil until built)
    eerr,        \* the error returned by Encode: the parts of its message, <<>> for nil
    written      \* the chunks written to the Encoder's io.Writer

decVars == <<doc, pc, cur, pos, items, spines, project, idx, videoTrack, audioTrack,
             timeline, err>>

codecVars == <<cpc, rtime, text, parsed>>

encVars == <<epc, tl, ci, videoItems, audioItems, spineItems, document, eerr, written>>

vars == <<doc, pc, cur, pos, items, spines, project, idx, videoTrack, audioTrack,
          timeline, err, codecVars, encVars>>

Nil == <<>>

Ptr(x) == <<x>>

----------------------------------------------------------------------------
(* Bounds of the inputs.                                                   *)

MaxProjects == 2     \* project elements per library / event

MaxEvents == 2       \* event elements per library

MaxSpine == 3        \* children of a spine, documents over SpineAlphabet

MaxItemSpine == 1    \* children of a spine, documents over ItemAlphabet

MaxText == 4         \* characters of a time attribute, strings over TextAlphabet

MaxValue == 12       \* magnitude of a time value handed to formatRationalTime

MaxRate == 12        \* rate of a time value handed to formatRationalTime

MaxHalves == 5       \* magnitude of a fractional time value, in halves

MaxVideoItems == 2   \* children of the video track, timelines over VideoAlphabet

MaxAudioItems == 2   \* children of the audio track, timelines over AudioAlphabet

MaxStackChildren == 3  \* children of the root stack, timelines over StackChildren

MaxRoundTrip == 2      \* children of the video track, timelines over RoundTripItems

----------------------------------------------------------------------------
(* Rational time codec: Decoder.parseRationalTime.                         *)

Digits == {"0", "1", "2", "3", "4", "5", "6", "7", "8", "9"}

DigitVal(c) ==
    CASE c = "0" -> 0 [] c = "1" -> 1 [] c = "2" -> 2 [] c = "3" -> 3
      [] c = "4" -> 4 [] c = "5" -> 5 [] c = "6" -> 6 [] c = "7" -> 7
      [] c = "8" -> 8 [] c = "9" -> 9

\* The characters time attributes are written with in this model. strconv.ParseFloat
\* is modelled on this alphabet: no exponent, hex, inf/nan or underscore forms.
TimeChars == Digits \cup {"/", "s", "x", "-", "+"}

RECURSIVE DecimalValue(_)
DecimalValue(s) ==
    IF s = <<>> THEN 0
    ELSE DecimalValue(SubSeq(s, 1, Len(s) - 1)) * 10 + DigitVal(s[Len(s)])

AllDigits(s) == Len(s) > 0 /\ \A i \in 1..Len(s) : s[i] \in Digits

HasSign(s) == Len(s) > 0 /\ s[1] \in {"-", "+"}

Unsigned(s) == IF HasSign(s) THEN Tail(s) ELSE s

SignOf(s) == IF Len(s) > 0 /\ s[1] = "-" THEN 0 - 1 ELSE 1

\* strconv.ParseFloat(s, 64) on TimeChars: optional sign, then one or more digits.
ParseFloat(s) ==
    IF AllDigits(Unsigned(s))
    THEN [ok |-> TRUE, val |-> SignOf(s) * DecimalValue(Unsigned(s))]
    ELSE [ok |-> FALSE, val |-> 0]

\* strings.TrimSuffix(s, "s")
TrimSuffixS(s) ==
    IF Len(s) > 0 /\ s[Len(s)] = "s" THEN SubSeq(s, 1, Len(s) - 1) ELSE s

\* strings.Split(s, "/"): the parts between the separators, always at least one part.
RECURSIVE SplitSlash(_)
SplitSlash(s) ==
    IF \A i \in 1..Len(s) : s[i] # "/" THEN <<s>>
    ELSE LET k == CHOOSE i \in 1..Len(s) :
                      s[i] = "/" /\ \A j \in 1..(i - 1) : s[j] # "/"
         IN  <<SubSeq(s, 1, k - 1)>> \o SplitSlash(SubSeq(s, k + 1, Len(s)))

\* opentime.RationalTime{} : the zero value of the struct
ZeroTime == [value |-> 0, rate |-> 0]

NewRationalTime(value, rate) == [value |-> value, rate |-> rate]

NewTimeRange(start, duration) == [start |-> start, duration |-> duration]

DefaultRate == 24

Parsed(rt) == [rt |-> rt, err |-> ""]

ParseError(msg) == [rt |-> ZeroTime, err |-> msg]

\* len(parts) != 2: "Try parsing as a simple number (frames at default rate)"
parseNumber(v) ==
    IF ~v.ok THEN ParseError("invalid rational time format")
    ELSE Parsed(NewRationalTime(v.val, DefaultRate))

\* len(parts) == 2: numerator and denominator
parseFraction(v, r) ==
    IF ~v.ok THEN ParseError("invalid rational time numerator")
    ELSE IF ~r.ok THEN ParseError("invalid rational time denominator")
    ELSE Parsed(NewRationalTime(v.val, r.val))

\* Mutation of parseParts: whatever follows a second "/" is ignored.
parsePartsFirstTwo(t, parts) ==
    IF Len(parts) < 2 THEN parseNumber(ParseFloat(t))
    ELSE parseFraction(ParseFloat(parts[1]), ParseFloat(parts[2]))

parseParts(t, parts) ==
    IF Len(parts) # 2 THEN parseNumber(ParseFloat(t))
    ELSE parseFraction(ParseFloat(parts[1]), ParseFloat(parts[2]))

parseTrimmed(t) == parseParts(t, SplitSlash(t))

parseRationalTime(s) ==
    IF s = <<>> THEN Parsed(ZeroTime) ELSE parseTrimmed(TrimSuffixS(s))

----------------------------------------------------------------------------
(* Rational time codec: Encoder.formatRationalTime.                        *)

DigitChar(d) ==
    CASE d = 0 -> "0" [] d = 1 -> "1" [] d = 2 -> "2" [] d = 3 -> "3"
      [] d = 4 -> "4" [] d = 5 -> "5" [] d = 6 -> "6" [] d = 7 -> "7"
      [] d = 8 -> "8" [] d = 9 -> "9"

\* The decimal digits of a natural number, most significant first.
RECURSIVE FormatNat(_)
FormatNat(n) ==
    IF n < 10 THEN <<DigitChar(n)>>
    ELSE Append(FormatNat(n \div 10), DigitChar(n % 10))

\* The verb %d of fmt.Sprintf on an int64.
FormatInt(n) == IF n < 0 THEN <<"-">> \o FormatNat(0 - n) ELSE FormatNat(n)

\* A RationalTime holds two float64. One whose value and rate are whole numbers is
\* [value, rate]; one with a fractional part holds both as counts of halves:
\* HalfTime(3, 1) is the value 1.5 at the rate 0.5.
HalfTime(halfValue, halfRate) == [halfValue |-> halfValue, halfRate |-> halfRate]

InHalves(rt) == "halfRate" \in DOMAIN rt

\* int64(x) of a float64: truncation toward zero. Whole numbers inside the int64
\* range are kept.
Int64(x) == x

\* int64(h / 2)
Int64OfHalves(h) == IF h >= 0 THEN h \div 2 ELSE 0 - ((0 - h) \div 2)

\* int64(rt.Value())
Int64Value(rt) == IF InHalves(rt) THEN Int64OfHalves(rt.halfValue) ELSE Int64(rt.value)

\* int64(rt.Rate())
Int64Rate(rt) == IF InHalves(rt) THEN Int64OfHalves(rt.halfRate) ELSE Int64(rt.rate)

\* rt.Rate() <= 0
RateAtMostZero(rt) == IF InHalves(rt) THEN rt.halfRate <= 0 ELSE rt.rate <= 0

\* fmt.Sprintf("%d/%ds", value, rate)
SprintfTime(value, rate) == FormatInt(value) \o <<"/">> \o FormatInt(rate) \o <<"s">>

\* Mutation of formatRationalTime: the rate is written before the value.
formatRationalTimeRateFirst(rt) ==
    IF RateAtMostZero(rt) THEN <<"0", "/", "1", "s">>
    ELSE SprintfTime(Int64Rate(rt), Int64Value(rt))

formatRationalTime(rt) ==
    IF RateAtMostZero(rt) THEN <<"0", "/", "1", "s">>
    ELSE SprintfTime(Int64Value(rt), Int64Rate(rt))

----------------------------------------------------------------------------
(* Raw XML elements (the decoder's input).                                 *)

T_6_2 == <<"6", "/", "2", "s">>          \* "6/2s"

T_12_4 == <<"1", "2", "/", "4", "s">>    \* "12/4s"

T_1_2 == <<"1", "/", "2">>               \* "1/2", no unit suffix

T_3 == <<"3">>                           \* "3", a bare number

T_bad == <<"x">>                         \* neither a fraction nor a number

T_bad2 == <<"1", "/", "2", "/", "3">>    \* more than one "/"

T_6_0 == <<"6", "/", "0", "s">>          \* "6/0s", a zero denominator

T_6_m2 == <<"6", "/", "-", "2", "s">>    \* "6/-2s", a negative denominator

T_none == <<>>                           \* attribute absent

\* A marker child element: <marker start= duration= value= note=/>
RawMarker(start, duration, value, note) ==
    [start |-> start, duration |-> duration, value |-> value, note |-> note]

M1 == RawMarker(T_6_2, T_12_4, "Test Marker", "Marker comment")

M2 == RawMarker(T_3, T_none, "Second", "")

MBadStart == RawMarker(T_bad, T_none, "Bad start", "n")

MBadDuration == RawMarker(T_6_2, T_bad2, "Bad duration", "n")

MNoStart == RawMarker(T_none, T_6_2, "No start", "n")

\* An element with the given tag and no attribute or child.
El(tag) ==
    [tag |-> tag, name |-> "", ref |-> "", offset |-> T_none, start |-> T_none,
     duration |-> T_none, audioDuration |-> T_none, srcEnable |-> "",
     markers |-> <<>>, video |-> Nil, audio |-> Nil, inner |-> <<>>]

Named(tag, name, duration) == [El(tag) EXCEPT !.name = name, !.duration = duration]

KnownTags == {"asset-clip", "clip", "video", "audio", "gap", "title", "transition",
              "ref-clip"}

----------------------------------------------------------------------------
(* Document model: what encoding/xml keeps of an element for each struct.   *)

\* type Marker struct: start, duration, value, note
DecodeMarker(m) ==
    [Start |-> m.start, Duration |-> m.duration, Value |-> m.value, Note |-> m.note]

DecodeMarkers(ms) == [i \in 1..Len(ms) |-> DecodeMarker(ms[i])]

\* type Video struct: name, ref, offset, start, duration, marker children
DecodeVideo(e) ==
    [type |-> "Video", Name |-> e.name, Ref |-> e.ref, Offset |-> e.offset,
     Start |-> e.start, Duration |-> e.duration, Markers |-> DecodeMarkers(e.markers)]

\* type Audio struct: name, ref, offset, start, duration (role and audio-channel
\* children are not modelled); the struct has no field for marker children, which
\* encoding/xml therefore drops.
DecodeAudio(e) ==
    [type |-> "Audio", Name |-> e.name, Ref |-> e.ref, Offset |-> e.offset,
     Start |-> e.start, Duration |-> e.duration]

\* type Clip struct
DecodeClip(e) ==
    [type |-> "Clip", Name |-> e.name, Ref |-> e.ref, Offset |-> e.offset,
     Start |-> e.start, Duration |-> e.duration, AudioDuration |-> e.audioDuration,
     Markers |-> DecodeMarkers(e.markers),
     Video |-> IF e.video = Nil THEN Nil ELSE Ptr(DecodeVideo(e.video[1])),
     Audio |-> IF e.audio = Nil THEN Nil ELSE Ptr(DecodeAudio(e.audio[1]))]

\* type Gap struct: name, offset, start, duration
DecodeGap(e) ==
    [type |-> "Gap", Name |-> e.name, Offset |-> e.offset, Start |-> e.start,
     Duration |-> e.duration]

\* type Title struct
DecodeTitle(e) ==
    [type |-> "Title", Name |-> e.name, Ref |-> e.ref, Offset |-> e.offset,
     Start |-> e.start, Duration |-> e.duration]

\* type Transition struct (filter children not modelled)
DecodeTransition(e) ==
    [type |-> "Transition", Name |-> e.name, Offset |-> e.offset,
     Duration |-> e.duration]

\* type RefClip struct
DecodeRefClip(e) ==
    [type |-> "RefClip", Name |-> e.name, Ref |-> e.ref, Offset |-> e.offset,
     Start |-> e.start, Duration |-> e.duration, SrcEnable |-> e.srcEnable,
     Markers |-> DecodeMarkers(e.markers)]

\* The element name a struct demands through the tag of its XMLName field.
XMLNameOf(type) ==
    CASE type = "Clip" -> "asset-clip"
      [] type = "Video" -> "video"
      [] type = "Audio" -> "audio"
      [] type = "Gap" -> "gap"
      [] type = "Title" -> "title"
      [] type = "Transition" -> "transition"
      [] type = "RefClip" -> "ref-clip"

\* The switch of Spine.UnmarshalXML on t.Name.Local: the struct built for a tag.
ItemTypeOf(tag) ==
    CASE tag \in {"asset-clip", "clip"} -> "Clip"
      [] tag = "video" -> "Video"
      [] tag = "audio" -> "Audio"
      [] tag = "gap" -> "Gap"
      [] tag = "title" -> "Title"
      [] tag = "transition" -> "Transition"
      [] tag = "ref-clip" -> "RefClip"
      [] OTHER -> "skip"

DecodeAs(type, e) ==
    CASE type = "Clip" -> DecodeClip(e)
      [] type = "Video" -> DecodeVideo(e)
      [] type = "Audio" -> DecodeAudio(e)
      [] type = "Gap" -> DecodeGap(e)
      [] type = "Title" -> DecodeTitle(e)
      [] type = "Transition" -> DecodeTransition(e)
      [] type = "RefClip" -> DecodeRefClip(e)

\* d.DecodeElement(item, &t): encoding/xml refuses a start element whose name is
\* not the one the struct's XMLName tag names, and otherwise fills the struct.
DecodeElement(type, e) ==
    IF XMLNameOf(type) # e.tag
    THEN [item |-> Nil, err |-> "expected element type"]
    ELSE [item |-> Ptr(DecodeAs(type, e)), err |-> ""]

----------------------------------------------------------------------------
(* Timeline model (gotio), as far as the decoder constructs it.            *)

MarkerColorGreen == "GREEN"

NewMarker(name, markedRange, color, comment) ==
    [name |-> name, marked_range |-> markedRange, color |-> color, comment |-> comment]

NewClip(name, sourceRange, markers) ==
    [kind |-> "Clip", name |-> name, source_range |-> sourceRange, markers |-> markers]

NewGap(name, sourceRange) ==
    [kind |-> "Gap", name |-> name, source_range |-> sourceRange]

\* gotio.NewStack followed by stack.SetMetadata(metadata)
NewStack(name, sourceRange, markers, metadata) ==
    [kind |-> "Stack", name |-> name, source_range |-> sourceRange,
     markers |-> markers, metadata |-> metadata]

NewTrack(name, kind, children) == [name |-> name, kind |-> kind, children |-> children]

NewTimeline(name) == [name |-> name, tracks |-> <<>>]

----------------------------------------------------------------------------
(* Decoder: per-item conversions. Each returns the two tracks' children    *)
(* after the call and the error ("" for nil).                              *)

\* An error is the sequence of the words of its message, <<>> for nil.
Converted(video, audio) == [video |-> video, audio |-> audio, err |-> <<>>]

Failed(video, audio, msg) == [video |-> video, audio |-> audio, err |-> msg]

\* "var start; if x.Start != "" { start, err = parseRationalTime(x.Start) }"
parseStart(s) == IF s # <<>> THEN parseRationalTime(s) ELSE Parsed(ZeroTime)

\* Mutation of markerResult: an empty duration attribute is an error.
markerResultNeedsDuration(marker, start, duration) ==
    IF start.err # "" \/ duration.err # "" \/ marker.Duration = <<>>
    THEN [marker |-> Nil, err |-> <<"failed to parse", "marker", "duration", "">>]
    ELSE [marker |-> Ptr(NewMarker(marker.Value, NewTimeRange(start.rt, duration.rt),
                                   MarkerColorGreen, marker.Note)),
          err |-> <<>>]

markerResult(marker, start, duration) ==
    IF start.err # ""
    THEN [marker |-> Nil, err |-> <<"failed to parse", "marker", "start", start.err>>]
    ELSE IF duration.err # ""
    THEN [marker |-> Nil,
          err |-> <<"failed to parse", "marker", "duration", duration.err>>]
    ELSE [marker |-> Ptr(NewMarker(marker.Value, NewTimeRange(start.rt, duration.rt),
                                   MarkerColorGreen, marker.Note)),
          err |-> <<>>]

convertMarker(marker) ==
    markerResult(marker, parseRationalTime(marker.Start), parseStart(marker.Duration))

\* markers = append(markers, marker), unless the marker or an earlier one failed
appendMarker(m, rest) ==
    IF m.err # <<>> THEN [markers |-> <<>>, err |-> m.err]
    ELSE IF rest.err # <<>> THEN rest
    ELSE [markers |-> m.marker \o rest.markers, err |-> <<>>]

\* The loop "for _, m := range x.Markers": stops at the first marker that fails.
RECURSIVE convertMarkers(_)
convertMarkers(ms) ==
    IF ms = <<>> THEN [markers |-> <<>>, err |-> <<>>]
    ELSE appendMarker(convertMarker(ms[1]), convertMarkers(Tail(ms)))

\* The checks every conversion starts with: duration, then start, then markers.
\* kind names the element in the error message; the parse error is wrapped (%w),
\* a marker's error is returned as it is.
\* Mutation of firstError: the error of the start attribute is dropped.
firstErrorNoStart(kind, duration, start, markers) ==
    IF duration.err # "" THEN <<"failed to parse", kind, "duration", duration.err>>
    ELSE markers.err

firstError(kind, duration, start, markers) ==
    IF duration.err # "" THEN <<"failed to parse", kind, "duration", duration.err>>
    ELSE IF start.err # "" THEN <<"failed to parse", kind, "start", start.err>>
    ELSE markers.err

\* Mutation of clipResult: the audio branch is an "else" of the video branch.
clipResultElse(clip, video, audio, otioClip) ==
    IF clip.Video # Nil \/ clip.Ref # "" THEN Converted(Append(video, otioClip), audio)
    ELSE IF clip.Audio # Nil \/ clip.AudioDuration # <<>>
    THEN Converted(video, Append(audio, otioClip))
    ELSE Converted(video, audio)

clipResult(clip, video, audio, otioClip) ==
    Converted(IF clip.Video # Nil \/ clip.Ref # "" THEN Append(video, otioClip)
              ELSE video,
              IF clip.Audio # Nil \/ clip.AudioDuration # <<>>
              THEN Append(audio, otioClip)
              ELSE audio)

clipParsed(clip, video, audio, duration, start, markers, e) ==
    IF e # <<>> THEN Failed(video, audio, e)
    ELSE clipResult(clip, video, audio,
                    NewClip(clip.Name, NewTimeRange(start.rt, duration.rt),
                            markers.markers))

clipChecked(clip, video, audio, duration, start, markers) ==
    clipParsed(clip, video, audio, duration, start, markers,
               firstError("clip", duration, start, markers))

convertClip(clip, video, audio) ==
    clipChecked(clip, video, audio, parseRationalTime(clip.Duration),
                parseStart(clip.Start), convertMarkers(clip.Markers))

videoParsedBothTracks(v, video, audio, duration, start, markers, e) ==
    IF e # <<>> THEN Failed(video, audio, e)
    ELSE Converted(Append(video, NewClip(v.Name, NewTimeRange(start.rt, duration.rt),
                                         markers.markers)),
                   Append(audio, NewClip(v.Name, NewTimeRange(start.rt, duration.rt),
                                         markers.markers)))

videoParsed(v, video, audio, duration, start, markers, e) ==
    IF e # <<>> THEN Failed(video, audio, e)
    ELSE Converted(Append(video, NewClip(v.Name, NewTimeRange(start.rt, duration.rt),
                                         markers.markers)),
                   audio)

videoChecked(v, video, audio, duration, start, markers) ==
    videoParsed(v, video, audio, duration, start, markers,
                firstError("video", duration, start, markers))

convertVideo(v, video, audio) ==
    videoChecked(v, video, audio, parseRationalTime(v.Duration), parseStart(v.Start),
                 convertMarkers(v.Markers))

NoMarkers == [markers |-> <<>>, err |-> <<>>]

audioParsed(a, video, audio, duration, start, e) ==
    IF e # <<>> THEN Failed(video, audio, e)
    ELSE Converted(video,
                   Append(audio, NewClip(a.Name, NewTimeRange(start.rt, duration.rt),
                                         <<>>)))

audioChecked(a, video, audio, duration, start) ==
    audioParsed(a, video, audio, duration, start,
                firstError("audio", duration, start, NoMarkers))

convertAudio(a, video, audio) ==
    audioChecked(a, video, audio, parseRationalTime(a.Duration), parseStart(a.Start))

gapParsed(gap, video, audio, duration) ==
    IF duration.err # ""
    THEN Failed(video, audio, <<"failed to parse", "gap", "duration", duration.err>>)
    ELSE Converted(Append(video, NewGap(gap.Name, NewTimeRange(ZeroTime, duration.rt))),
                   Append(audio, NewGap(gap.Name, NewTimeRange(ZeroTime, duration.rt))))

\* Mutation of convertGap: the gap goes to the video track only.
convertGapVideoOnly(gap, video, audio) ==
    Converted(gapParsed(gap, video, audio, parseRationalTime(gap.Duration)).video, audio)

\* Mutation of convertGap: the gap's own start attribute becomes the range's start.
convertGapWithStart(gap, video, audio) ==
    IF parseRationalTime(gap.Duration).err # "" \/ parseRationalTime(gap.Start).err # ""
    THEN Failed(video, audio, <<"failed to parse", "gap", "duration">>)
    ELSE Converted(
             Append(video, NewGap(gap.Name,
                 NewTimeRange(parseRationalTime(gap.Start).rt,
                              parseRationalTime(gap.Duration).rt))),
             Append(audio, NewGap(gap.Name,
                 NewTimeRange(parseRationalTime(gap.Start).rt,
                              parseRationalTime(gap.Duration).rt))))

convertGap(gap, video, audio) ==
    gapParsed(gap, video, audio, parseRationalTime(gap.Duration))

\* metadata := map{"fcpx_ref": Ref}; if SrcEnable != "" { ["fcpx_src_enable"] = SrcEnable }
refClipMetadata(refClip) ==
    IF refClip.SrcEnable # ""
    THEN [k \in {"fcpx_ref", "fcpx_src_enable"} |->
             IF k = "fcpx_ref" THEN refClip.Ref ELSE refClip.SrcEnable]
    ELSE [k \in {"fcpx_ref"} |-> refClip.Ref]

\* Mutation of refClipResult: any non-empty srcEnable routes to the audio track.
refClipResultAnyEnable(refClip, video, audio, stack) ==
    IF refClip.SrcEnable # "" THEN Converted(video, Append(audio, stack))
    ELSE Converted(Append(video, stack), audio)

\* "Add to appropriate track based on srcEnable attribute"
refClipResult(refClip, video, audio, stack) ==
    IF refClip.SrcEnable = "audio" THEN Converted(video, Append(audio, stack))
    ELSE Converted(Append(video, stack), audio)

refClipParsed(refClip, video, audio, duration, start, markers, e) ==
    IF e # <<>> THEN Failed(video, audio, e)
    ELSE refClipResult(refClip, video, audio,
                       NewStack(refClip.Name, NewTimeRange(start.rt, duration.rt),
                                markers.markers, refClipMetadata(refClip)))

refClipChecked(refClip, video, audio, duration, start, markers) ==
    refClipParsed(refClip, video, audio, duration, start, markers,
                  firstError("ref-clip", duration, start, markers))

convertRefClip(refClip, video, audio) ==
    refClipChecked(refClip, video, audio, parseRationalTime(refClip.Duration),
                   parseStart(refClip.Start), convertMarkers(refClip.Markers))

\* Mutation of convertItem: the duration of a title or transition is parsed, and
\* an error of it returned, before the item is passed over.
convertItemParsesSkipped(item, video, audio) ==
    CASE item.type = "Clip" -> convertClip(item, video, audio)
      [] item.type = "Video" -> convertVideo(item, video, audio)
      [] item.type = "Audio" -> convertAudio(item, video, audio)
      [] item.type = "Gap" -> convertGap(item, video, audio)
      [] item.type = "RefClip" -> convertRefClip(item, video, audio)
      [] OTHER -> IF parseRationalTime(item.Duration).err # ""
                  THEN Failed(video, audio,
                              <<"failed to parse", "transition", "duration",
                                parseRationalTime(item.Duration).err>>)
                  ELSE Converted(video, audio)

\* The type switch of convertSequenceToTracks: Transition is skipped with
\* "continue"; Title matches no case.
convertItem(item, video, audio) ==
    CASE item.type = "Clip" -> convertClip(item, video, audio)
      [] item.type = "Video" -> convertVideo(item, video, audio)
      [] item.type = "Audio" -> convertAudio(item, video, audio)
      [] item.type = "Gap" -> convertGap(item, video, audio)
      [] item.type = "RefClip" -> convertRefClip(item, video, audio)
      [] OTHER -> Converted(video, audio)

\* Mutation of appendTracks: both tracks are appended, empty or not.
appendTracksAlways(tracks, video, audio) ==
    tracks \o <<NewTrack("Video 1", "Video", video), NewTrack("Audio 1", "Audio", audio)>>

\* "Add tracks to timeline": a track is appended only if it has children.
appendTracks(tracks, video, audio) ==
    LET withVideo == IF Len(video) > 0
                     THEN Append(tracks, NewTrack("Video 1", "Video", video))
                     ELSE tracks
    IN  IF Len(audio) > 0
        THEN Append(withVideo, NewTrack("Audio 1", "Audio", audio))
        ELSE withVideo

----------------------------------------------------------------------------
(* The document: fcpxml root with optional project, library and event.     *)

RawSpine(children) == [children |-> children]

RawSequence(spine) == [Spine |-> spine]

RawProject(name, sequence) == [Name |-> name, Sequence |-> sequence]

LibProjects(d) == IF d.Library = Nil THEN <<>> ELSE d.Library[1].Projects

LibEvents(d) == IF d.Library = Nil THEN <<>> ELSE d.Library[1].Events

EventProjects(d) == IF d.Event = Nil THEN <<>> ELSE d.Event[1].Projects

RECURSIVE FlattenEvents(_)
FlattenEvents(events) ==
    IF events = <<>> THEN <<>>
    ELSE events[1].Projects \o FlattenEvents(Tail(events))

\* Every project element of the document, in the order the XML decoder meets them
\* (library first, then the root event, then the root project).
ProjectList(d) ==
    LibProjects(d) \o FlattenEvents(LibEvents(d)) \o EventProjects(d) \o d.Project

HasSpine(p) == p.Sequence # Nil /\ p.Sequence[1].Spine # Nil

SpineChildren(p) == p.Sequence[1].Spine[1].children

\* The *Project the XML decoder built for a project element whose spine (if any)
\* decoded to the items sp points to.
TypedProject(p, sp) ==
    [Name |-> p.Name,
     Sequence |-> IF p.Sequence = Nil THEN Nil
                  ELSE Ptr([Spine |-> IF sp = Nil THEN Nil
                                      ELSE Ptr([Items |-> sp[1]])])]

TypedProjects(d, sps, base, n) ==
    [i \in 1..n |-> TypedProject(ProjectList(d)[base + i], sps[base + i])]

EventBase(d, e) ==
    Len(LibProjects(d)) + Len(FlattenEvents(SubSeq(LibEvents(d), 1, e - 1)))

RootEventBase(d) == Len(LibProjects(d)) + Len(FlattenEvents(LibEvents(d)))

\* The FCPXML struct after xml.Decode, given the items of every spine.
Unmarshalled(d, sps) ==
    [Project |-> IF d.Project = Nil THEN Nil
                 ELSE TypedProjects(d, sps, RootEventBase(d) + Len(EventProjects(d)), 1),
     Library |-> IF d.Library = Nil THEN Nil
                 ELSE Ptr([Projects |-> TypedProjects(d, sps, 0, Len(LibProjects(d))),
                           Events |-> [e \in 1..Len(LibEvents(d)) |->
                               [Projects |-> TypedProjects(d, sps, EventBase(d, e),
                                                 Len(LibEvents(d)[e].Projects))]]]),
     Event |-> IF d.Event = Nil THEN Nil
               ELSE Ptr([Projects |-> TypedProjects(d, sps, RootEventBase(d),
                                                    Len(EventProjects(d)))])]

\* "for _, event := range Library.Events { if len(event.Projects) > 0 { ...; break } }"
RECURSIVE firstEventProject(_)
firstEventProject(events) ==
    IF events = <<>> THEN Nil
    ELSE IF Len(events[1].Projects) > 0 THEN Ptr(events[1].Projects[1])
    ELSE firstEventProject(Tail(events))

\* Mutation of findProject: the library is looked at before the root-level project.
findProjectLibraryFirst(fcpxml) ==
    IF fcpxml.Library # Nil /\ Len(fcpxml.Library[1].Projects) > 0
    THEN Ptr(fcpxml.Library[1].Projects[1])
    ELSE IF fcpxml.Library # Nil /\ firstEventProject(fcpxml.Library[1].Events) # Nil
    THEN firstEventProject(fcpxml.Library[1].Events)
    ELSE IF fcpxml.Project # Nil THEN fcpxml.Project
    ELSE IF fcpxml.Event # Nil /\ Len(fcpxml.Event[1].Projects) > 0
    THEN Ptr(fcpxml.Event[1].Projects[1])
    ELSE Nil

\* convertToTimeline, "Find the first project (either at root or in library/event)"
findProject(fcpxml) ==
    IF fcpxml.Project # Nil THEN fcpxml.Project
    ELSE IF fcpxml.Library # Nil
    THEN IF Len(fcpxml.Library[1].Projects) > 0
         THEN Ptr(fcpxml.Library[1].Projects[1])
         ELSE IF Len(fcpxml.Library[1].Events) > 0
         THEN firstEventProject(fcpxml.Library[1].Events)
         ELSE Nil
    ELSE IF fcpxml.Event # Nil /\ Len(fcpxml.Event[1].Projects) > 0
    THEN Ptr(fcpxml.Event[1].Projects[1])
    ELSE Nil

----------------------------------------------------------------------------
(* The documents the decoder is run on.                                    *)

SeqsUpTo(S, n) == UNION {[1..k -> S] : k \in 0..n}

LibraryNames == <<"Lib 1", "Lib 2", "Lib 3">>

RootEventNames == <<"Ev 1", "Ev 2", "Ev 3">>

LibraryEventNames ==
    << <<"E1 P1", "E1 P2", "E1 P3">>, <<"E2 P1", "E2 P2", "E2 P3">>,
       <<"E3 P1", "E3 P2", "E3 P3">> >>

BareProjects(names, n) == [i \in 1..n |-> RawProject(names[i], Nil)]

\* Documents that vary where the projects are; the projects have no sequence.
ProjectDocs ==
    {[Project |-> rp, Library |-> lib, Event |-> ev] :
        rp \in {Nil, Ptr(RawProject("Root", Nil))},
        lib \in {Nil} \cup
            {Ptr([Projects |-> BareProjects(LibraryNames, n),
                  Events |-> [e \in 1..Len(counts) |->
                      [Projects |-> BareProjects(LibraryEventNames[e], counts[e])]]]) :
                n \in 0..MaxProjects, counts \in SeqsUpTo(0..MaxProjects, MaxEvents)},
        ev \in {Nil} \cup
            {Ptr([Projects |-> BareProjects(RootEventNames, n)]) : n \in 0..MaxProjects}}

RootOnly(p) == [Project |-> Ptr(p), Library |-> Nil, Event |-> Nil]

InLibraryEvent(p) ==
    [Project |-> Nil,
     Library |-> Ptr([Projects |-> <<>>, Events |-> <<[Projects |-> <<p>>]>>]),
     Event |-> Nil]

WithSpine(name, children) ==
    RawProject(name, Ptr(RawSequence(Ptr(RawSpine(children)))))

\* One or two elements of every kind a spine may hold.
SpineAlphabet ==
    { [Named("asset-clip", "Asset", T_6_2) EXCEPT !.ref = "r2"],
      [Named("asset-clip", "AV", T_6_2) EXCEPT !.ref = "r2", !.audioDuration = T_6_2],
      Named("clip", "Plain clip", T_6_2),
      Named("video", "Clip 1", T_12_4),
      Named("video", "Broken", T_bad),
      Named("audio", "Sound", T_6_2),
      Named("gap", "Gap", T_6_2),
      Named("title", "Title", T_bad),
      [Named("transition", "Cross Dissolve", T_bad) EXCEPT !.offset = T_bad2],
      Named("ref-clip", "compound_clip_1", T_3),
      [Named("ref-clip", "compound_audio", T_3) EXCEPT !.srcEnable = "audio"],
      [El("keyword") EXCEPT !.inner = <<Named("video", "Inner", T_6_2)>>] }

\* Documents that vary the spine of a root-level project, and the two documents
\* whose project has no sequence or no spine.
SpineDocs ==
    {RootOnly(WithSpine("Test Project", c)) : c \in SeqsUpTo(SpineAlphabet, MaxSpine)}
    \cup {RootOnly(RawProject("Empty Project", Nil)),
          RootOnly(RawProject("Empty Project", Ptr(RawSequence(Nil))))}

\* Elements that vary the attributes and children each conversion reads.
ClipElements ==
    {[Named("asset-clip", "AC", T_6_2) EXCEPT
         !.start = T_1_2, !.ref = r, !.audioDuration = ad, !.video = v, !.audio = a,
         !.markers = <<M1>>] :
        r \in {"", "r2"}, ad \in {T_none, T_12_4},
        v \in {Nil, Ptr(Named("video", "V", T_6_2))},
        a \in {Nil, Ptr(Named("audio", "A", T_6_2))}}
    \cup {[Named("asset-clip", "AC", d) EXCEPT
              !.start = st, !.ref = "r2", !.audio = Ptr(Named("audio", "A", T_6_2))] :
             d \in {T_none, T_bad, T_3}, st \in {T_none, T_bad}}
    \cup {[Named("asset-clip", "AC", T_6_2) EXCEPT
              !.ref = "r2", !.audioDuration = T_6_2, !.markers = ms] :
             ms \in {<<>>, <<M1, M2>>, <<MNoStart>>, <<M1, MBadStart>>,
                     <<MBadDuration, M1>>}}

VideoElements ==
    {[Named("video", "Clip 1", d) EXCEPT !.start = st, !.markers = ms] :
        d \in {T_12_4, T_bad}, st \in {T_none, T_6_2},
        ms \in {<<>>, <<M1, M2>>, <<MNoStart>>, <<MBadStart>>}}

AudioElements ==
    {[Named("audio", "Sound", d) EXCEPT !.start = st, !.markers = ms] :
        d \in {T_6_2, T_bad}, st \in {T_none, T_3, T_bad},
        ms \in {<<>>, <<M1, M2>>}}

GapElements ==
    {[Named("gap", "Gap", d) EXCEPT !.start = so[1], !.offset = so[2]] :
        d \in {T_6_2, T_none, T_bad, T_3},
        so \in {<<T_none, T_none>>, <<T_bad, T_bad2>>, <<T_6_2, T_12_4>>}}

RefClipElements ==
    {[Named("ref-clip", "compound_clip_1", T_12_4) EXCEPT
         !.start = T_3, !.srcEnable = se, !.ref = r, !.markers = ms] :
        se \in {"", "audio", "video", "Audio"}, r \in {"", "r3"},
        ms \in {<<>>, <<M1, M2>>}}
    \cup {Named("ref-clip", "compound_clip_1", T_bad),
          [Named("ref-clip", "compound_clip_1", T_3) EXCEPT !.start = T_bad2]}

OtherElements ==
    {Named("title", "Title", T_6_2), Named("transition", "Cross Dissolve", T_6_2),
     Named("clip", "Plain clip", T_6_2), El("future-tag")}

\* Elements whose duration is a fraction with a zero or negative denominator.
ZeroRateElements ==
    {Named("video", "Zero rate", T_6_0), Named("gap", "Negative rate", T_6_m2)}

ItemAlphabet ==
    ClipElements \cup VideoElements \cup AudioElements \cup GapElements
        \cup RefClipElements \cup OtherElements \cup ZeroRateElements

\* Documents that vary one spine element in depth, inside library / event / project.
ItemDocs ==
    {InLibraryEvent(WithSpine("Library Project", c)) :
        c \in SeqsUpTo(ItemAlphabet, MaxItemSpine) \ {<<>>}}

Docs == ProjectDocs \cup SpineDocs \cup ItemDocs

----------------------------------------------------------------------------
(* The three programs share no state: while one runs, the others rest.     *)

DecoderIdle ==
    /\ doc = Nil /\ pc = "idle" /\ cur = 0 /\ pos = 0 /\ items = <<>>
    /\ spines = <<>> /\ project = Nil /\ idx = 0 /\ videoTrack = <<>>
    /\ audioTrack = <<>> /\ timeline = Nil /\ err = <<>>

CodecIdle ==
    /\ cpc = "idle" /\ rtime = ZeroTime /\ text = <<>> /\ parsed = Parsed(ZeroTime)

EncoderIdle ==
    /\ epc = "idle" /\ tl = Nil /\ ci = 0 /\ videoItems = <<>> /\ audioItems = <<>>
    /\ spineItems = <<>> /\ document = Nil /\ eerr = <<>> /\ written = <<>>

----------------------------------------------------------------------------
(* Decoder.Decode as a state machine.                                      *)

Init ==
    /\ CodecIdle /\ EncoderIdle
    /\ doc \in Docs
    /\ pc = "unmarshal"
    /\ cur = 1
    /\ pos = 0
    /\ items = <<>>
    /\ spines = <<>>
    /\ project = Nil
    /\ idx = 0
    /\ videoTrack = <<>>
    /\ audioTrack = <<>>
    /\ timeline = Nil
    /\ err = <<>>

CurProject == ProjectList(doc)[cur]

\* xml.Decode reaches the next project element: one without a spine is decoded by
\* encoding/xml alone, one with a spine enters Spine.UnmarshalXML.
StartProject ==
    /\ pc = "unmarshal" /\ pos = 0 /\ cur <= Len(ProjectList(doc))
    /\ IF HasSpine(CurProject)
       THEN /\ pos' = 1
            /\ items' = <<>>
            /\ UNCHANGED <<cur, spines>>
       ELSE /\ spines' = Append(spines, Nil)
            /\ cur' = cur + 1
            /\ UNCHANGED <<pos, items>>
    /\ UNCHANGED <<doc, pc, project, idx, videoTrack, audioTrack, timeline, err,
                   codecVars, encVars>>

\* Spine.UnmarshalXML, one xml.StartElement token: a child of the spine.
SpineChild ==
    /\ pc = "unmarshal" /\ pos >= 1 /\ pos <= Len(SpineChildren(CurProject))
    /\ LET e    == SpineChildren(CurProject)[pos]
           type == ItemTypeOf(e.tag)
           r    == DecodeElement(type, e)
       IN  IF type = "skip"
           THEN /\ pos' = pos + 1
                /\ UNCHANGED <<items, pc, err>>
           ELSE IF r.err # ""
           THEN /\ pc' = "failed"
                /\ err' = <<"failed to parse FCPX XML", r.err>>
                /\ UNCHANGED <<items, pos>>
           ELSE /\ items' = Append(items, r.item[1])
                /\ pos' = pos + 1
                /\ UNCHANGED <<pc, err>>
    /\ UNCHANGED <<doc, cur, spines, project, idx, videoTrack, audioTrack, timeline,
                   codecVars, encVars>>

\* Spine.UnmarshalXML, the xml.EndElement of the spine: return nil.
SpineEnd ==
    /\ pc = "unmarshal" /\ pos >= 1 /\ pos = Len(SpineChildren(CurProject)) + 1
    /\ spines' = Append(spines, Ptr(items))
    /\ items' = <<>>
    /\ pos' = 0
    /\ cur' = cur + 1
    /\ UNCHANGED <<doc, pc, project, idx, videoTrack, audioTrack, timeline, err,
                   codecVars, encVars>>

\* Decode: xml.Decode returned nil, convertToTimeline is called.
UnmarshalDone ==
    /\ pc = "unmarshal" /\ pos = 0 /\ cur > Len(ProjectList(doc))
    /\ pc' = "resolve"
    /\ UNCHANGED <<doc, cur, pos, items, spines, project, idx, videoTrack, audioTrack,
                   timeline, err,
                   codecVars, encVars>>

\* convertToTimeline up to the spine loop: find the project, create the timeline,
\* and (convertSequenceToTracks) create the two empty tracks.
Resolve ==
    /\ pc = "resolve"
    /\ LET p == findProject(Unmarshalled(doc, spines))
       IN  /\ project' = p
           /\ IF p = Nil
              THEN /\ pc' = "failed"
                   /\ err' = <<"no project found in FCPX XML">>
                   /\ UNCHANGED <<timeline, idx>>
              ELSE /\ timeline' = Ptr(NewTimeline(p[1].Name))
                   /\ err' = <<>>
                   /\ IF p[1].Sequence = Nil \/ p[1].Sequence[1].Spine = Nil
                      THEN pc' = "done" /\ UNCHANGED idx
                      ELSE pc' = "convert" /\ idx' = 1
    /\ videoTrack' = <<>>
    /\ audioTrack' = <<>>
    /\ UNCHANGED <<doc, cur, pos, items, spines,
                   codecVars, encVars>>

SpineItems == project[1].Sequence[1].Spine[1].Items

\* convertSequenceToTracks, one iteration of "for _, item := range seq.Spine.Items".
ConvertItem ==
    /\ pc = "convert" /\ idx <= Len(SpineItems)
    /\ LET r == convertItem(SpineItems[idx], videoTrack, audioTrack)
       IN  IF r.err # <<>>
           THEN /\ pc' = "failed"
                /\ err' = r.err
                /\ timeline' = Nil
                /\ UNCHANGED <<idx, videoTrack, audioTrack>>
           ELSE /\ videoTrack' = r.video
                /\ audioTrack' = r.audio
                /\ idx' = idx + 1
                /\ UNCHANGED <<pc, err, timeline>>
    /\ UNCHANGED <<doc, cur, pos, items, spines, project,
                   codecVars, encVars>>

\* convertSequenceToTracks after the loop: "Add tracks to timeline", return.
AttachTracks ==
    /\ pc = "convert" /\ idx > Len(SpineItems)
    /\ timeline' = Ptr([timeline[1] EXCEPT
                           !.tracks = appendTracks(@, videoTrack, audioTrack)])
    /\ pc' = "done"
    /\ UNCHANGED <<doc, cur, pos, items, spines, project, idx, videoTrack, audioTrack,
                   err,
                   codecVars, encVars>>

Next ==
    \/ StartProject
    \/ SpineChild
    \/ SpineEnd
    \/ UnmarshalDone
    \/ Resolve
    \/ ConvertItem
    \/ AttachTracks

Spec == Init /\ [][Next]_vars

----------------------------------------------------------------------------
(* The rational time codec as a state machine: a string is parsed, or a    *)
(* time value is formatted and the result parsed back.                     *)

TextAlphabet == {"0", "1", "2", "/", "s", "x", "-", "+"}

\* The strings of TestDecoder_ParseRationalTime.
T_1200_24 == <<"1", "2", "0", "0", "/", "2", "4", "s">>

T_0_24 == <<"0", "/", "2", "4", "s">>

T_3600_30 == <<"3", "6", "0", "0", "/", "3", "0", "s">>

T_1001_30000 == <<"1", "0", "0", "1", "/", "3", "0", "0", "0", "0", "s">>

T_invalid == <<"i", "n", "v", "a", "l", "i", "d">>

T_24 == <<"2", "4">>

TestStrings == {T_1200_24, T_0_24, T_3600_30, T_1001_30000, T_invalid, T_24, T_bad2}

TimeStrings == SeqsUpTo(TextAlphabet, MaxText) \cup TestStrings

TestTimes ==
    {NewRationalTime(1200, 24), NewRationalTime(0, 24), NewRationalTime(3600, 30),
     NewRationalTime(1001, 30000)}

\* Time values with a fractional part, in halves: rates from -0.5 to 1.5.
FractionalTimes ==
    {HalfTime(v, r) : v \in (0 - MaxHalves)..MaxHalves, r \in {0 - 1, 1, 3}}

\* Whole-number time values and fractional ones; the rates include zero and
\* negative ones.
Times ==
    {NewRationalTime(v, r) : v \in (0 - MaxValue)..MaxValue, r \in (0 - 1)..MaxRate}
        \cup TestTimes \cup FractionalTimes

CodecInit ==
    /\ DecoderIdle /\ EncoderIdle
    /\ parsed = Parsed(ZeroTime)
    /\ \/ cpc = "parse" /\ text \in TimeStrings /\ rtime = ZeroTime
       \/ cpc = "format" /\ rtime \in Times /\ text = <<>>

\* e.formatRationalTime(rt)
Format ==
    /\ cpc = "format"
    /\ text' = formatRationalTime(rtime)
    /\ cpc' = "parse"
    /\ UNCHANGED <<rtime, parsed, decVars, encVars>>

\* d.parseRationalTime(s)
Parse ==
    /\ cpc = "parse"
    /\ parsed' = parseRationalTime(text)
    /\ cpc' = "done"
    /\ UNCHANGED <<rtime, text, decVars, encVars>>

CodecNext ==
    \/ Format
    \/ Parse

CodecSpec == CodecInit /\ [][CodecNext]_vars

----------------------------------------------------------------------------
(* Timeline model (opentimelineio), as far as the encoder reads it. A      *)
(* composable is a record with its kind; source_range is nil or a range;   *)
(* available_range is what AvailableRange() returns for it, nil standing   *)
(* for its error (a clip whose media reference has no available range).    *)

EncClip(name, sourceRange, availableRange, markers) ==
    [kind |-> "Clip", name |-> name, source_range |-> sourceRange,
     available_range |-> availableRange, markers |-> markers]

EncGap(name, sourceRange) ==
    [kind |-> "Gap", name |-> name, source_range |-> sourceRange,
     available_range |-> Nil]

EncStack(name, sourceRange, availableRange, markers, metadata) ==
    [kind |-> "Stack", name |-> name, source_range |-> sourceRange,
     available_range |-> availableRange, markers |-> markers, metadata |-> metadata]

\* A composable of another type (opentimelineio.Transition).
EncTransition(name) == [kind |-> "Transition", name |-> name]

\* A value of a metadata dictionary (interface{}): its dynamic type and the value.
StringValue(str) == [type |-> "string", value |-> str]

IntValue(n) == [type |-> "int", value |-> n]

\* child.(*opentimelineio.Track): of the children of a stack only a track has children.
IsTrack(child) == "children" \in DOMAIN child

TrackKindVideo == "Video"

TrackKindAudio == "Audio"

\* item.Duration(): the duration of the source range when one is set, otherwise of
\* the available range, and an error when there is none.
Duration(item) ==
    IF item.source_range # Nil THEN Parsed(item.source_range.duration)
    ELSE IF item.available_range # Nil THEN Parsed(item.available_range.duration)
    ELSE ParseError("no available range")

\* "var start; if x.SourceRange() != nil { start = x.SourceRange().StartTime() }"
StartTime(item) ==
    IF item.source_range # Nil THEN item.source_range.start ELSE ZeroTime

----------------------------------------------------------------------------
(* Encoder: per-item conversions. Each returns the document item (a        *)
(* pointer, nil on failure) and the error.                                 *)

Encoded(item) == [item |-> Ptr(item), err |-> <<>>]

EncodeFailed(msg) == [item |-> Nil, err |-> msg]

convertMarkerToFCPX(marker) ==
    [Start |-> formatRationalTime(marker.marked_range.start),
     Duration |-> formatRationalTime(marker.marked_range.duration),
     Value |-> marker.name, Note |-> marker.comment]

\* "for _, m := range x.Markers() { markers = append(markers, convertMarkerToFCPX(m)) }"
convertMarkersToFCPX(ms) == [i \in 1..Len(ms) |-> convertMarkerToFCPX(ms[i])]

\* &Video{Name, Duration, Start, Markers}
VideoOf(clip, duration) ==
    [type |-> "Video", Name |-> clip.name, Ref |-> "", Offset |-> <<>>,
     Start |-> formatRationalTime(StartTime(clip)),
     Duration |-> formatRationalTime(duration),
     Markers |-> convertMarkersToFCPX(clip.markers)]

\* &Audio{Name, Duration, Start}
AudioOf(clip, duration) ==
    [type |-> "Audio", Name |-> clip.name, Ref |-> "", Offset |-> <<>>,
     Start |-> formatRationalTime(StartTime(clip)),
     Duration |-> formatRationalTime(duration)]

clipToFCPX(clip, isVideo, duration) ==
    IF duration.err # ""
    THEN EncodeFailed(<<"failed to get clip duration", duration.err>>)
    ELSE IF isVideo THEN Encoded(VideoOf(clip, duration.rt))
    ELSE Encoded(AudioOf(clip, duration.rt))

convertClipToFCPX(clip, isVideo) == clipToFCPX(clip, isVideo, Duration(clip))

clipToAudio(clip, duration) ==
    IF duration.err # ""
    THEN EncodeFailed(<<"failed to get clip duration", duration.err>>)
    ELSE Encoded(AudioOf(clip, duration.rt))

convertClipToAudio(clip) == clipToAudio(clip, Duration(clip))

gapToFCPX(gap, duration) ==
    IF duration.err # ""
    THEN EncodeFailed(<<"failed to get gap duration", duration.err>>)
    ELSE Encoded([type |-> "Gap", Name |-> gap.name, Offset |-> <<>>, Start |-> <<>>,
                  Duration |-> formatRationalTime(duration.rt)])

convertGapToFCPX(gap) == gapToFCPX(gap, Duration(gap))

\* "refID := "r1"; if metadata != nil { if ref, ok := metadata["fcpx_ref"].(string); ok
\* { refID = ref } }"
\* Mutation of refID: without a string under fcpx_ref the reference stays empty.
refIDNoDefault(metadata) ==
    IF /\ metadata # Nil
       /\ "fcpx_ref" \in DOMAIN metadata
       /\ metadata["fcpx_ref"].type = "string"
    THEN metadata["fcpx_ref"].value
    ELSE ""

refID(metadata) ==
    IF /\ metadata # Nil
       /\ "fcpx_ref" \in DOMAIN metadata
       /\ metadata["fcpx_ref"].type = "string"
    THEN metadata["fcpx_ref"].value
    ELSE "r1"

\* &RefClip{Name, Ref, Duration, Start, Markers}
RefClipOf(stack, duration, ref) ==
    [type |-> "RefClip", Name |-> stack.name, Ref |-> ref, Offset |-> <<>>,
     Start |-> formatRationalTime(StartTime(stack)),
     Duration |-> formatRationalTime(duration), SrcEnable |-> "",
     Markers |-> convertMarkersToFCPX(stack.markers)]

stackToRefClip(stack, duration) ==
    IF duration.err # ""
    THEN EncodeFailed(<<"failed to get stack duration", duration.err>>)
    ELSE Encoded(RefClipOf(stack, duration.rt, refID(stack.metadata)))

convertStackToRefClip(stack) == stackToRefClip(stack, Duration(stack))

\* Encoder.convertItem: the type switch on the composable.
Encoder_convertItem(item, isVideo) ==
    CASE item.kind = "Clip" -> convertClipToFCPX(item, isVideo)
      [] item.kind = "Gap" -> convertGapToFCPX(item)
      [] item.kind = "Stack" -> convertStackToRefClip(item)
      [] OTHER -> EncodeFailed(<<"unsupported item type", item.kind>>)

\* Mutation of flattenVideo: the children of every track are collected.
flattenVideoAnyKind(video, child) ==
    IF IsTrack(child) THEN video \o child.children ELSE video

\* "if track, ok := child.(*Track); ok { if track.Kind() == TrackKindVideo {
\* videoItems = append(videoItems, track.Children()...) } ... }"
flattenVideo(video, child) ==
    IF IsTrack(child) /\ child.kind = TrackKindVideo THEN video \o child.children
    ELSE video

\* "... else if track.Kind() == TrackKindAudio { audioItems = append(...) }"
flattenAudio(audio, child) ==
    IF IsTrack(child) /\ child.kind = TrackKindAudio THEN audio \o child.children
    ELSE audio

SpineResult(spine, e) == [items |-> spine, err |-> e]

\* "clip.Audio = audio": clip is the item just appended to the spine.
withAudio(spine, audio) ==
    IF audio.err # <<>> THEN SpineResult(spine, audio.err)
    ELSE SpineResult([spine EXCEPT ![Len(spine)].Audio = audio.item], <<>>)

\* "Add corresponding audio if available": the audio item at the same index, if it
\* is a clip (audioItem.(*opentimelineio.Clip)) and if the item just converted is
\* a *Clip of the document (fcpItem.(*Clip)).
foldAudio(spine, fcpItem, audio, i) ==
    IF i <= Len(audio) /\ audio[i].kind = "Clip" /\ fcpItem.type = "Clip"
    THEN withAudio(spine, convertClipToAudio(audio[i]))
    ELSE SpineResult(spine, <<>>)

\* One iteration of "for i, item := range videoItems", r being what convertItem
\* returned for the item.
spineStep(spine, r, audio, i) ==
    IF r.err # <<>> THEN SpineResult(spine, r.err)
    ELSE foldAudio(Append(spine, r.item[1]), r.item[1], audio, i)

\* &Sequence{Format: "r1", Duration: "", Spine: spine}
SequenceOf(spine) ==
    [Format |-> "r1", Duration |-> <<>>, Spine |-> Ptr([Items |-> spine])]

\* &FCPXML{Version: "1.9", Project: &Project{Name, Sequence}}
FCPXMLOf(name, sequence) ==
    [Version |-> "1.9",
     Project |-> Ptr([Name |-> name, Sequence |-> Ptr(sequence)]),
     Library |-> Nil, Event |-> Nil]

XMLHeader == "<?xml version=\"1.0\" encoding=\"UTF-8\"?>"

----------------------------------------------------------------------------
(* xml.Encoder.Encode(fcpxml): the XML element encoding/xml writes for a   *)
(* struct of the document. An element takes its name from the tag of the   *)
(* struct's XMLName field, also in Spine.Items, a slice of interface       *)
(* values whose field has no tag; a string field tagged attr,omitempty is  *)
(* written unless empty, which reads back as the empty string.              *)

\* type Marker struct: start, duration, value, note
MarshalMarker(m) == RawMarker(m.Start, m.Duration, m.Value, m.Note)

MarshalMarkers(ms) == [i \in 1..Len(ms) |-> MarshalMarker(ms[i])]

\* Mutation of MarshalItem: the children of the spine are named after its field.
MarshalItemByFieldName(item) ==
    [El("Items") EXCEPT !.name = item.Name, !.offset = item.Offset,
                        !.start = item.Start, !.duration = item.Duration]

\* The items the encoder builds: *Video, *Audio, *Gap, *RefClip.
MarshalItem(item) ==
    CASE item.type = "Video" ->
             [El("video") EXCEPT !.name = item.Name, !.ref = item.Ref,
                                 !.offset = item.Offset, !.start = item.Start,
                                 !.duration = item.Duration,
                                 !.markers = MarshalMarkers(item.Markers)]
      [] item.type = "Audio" ->
             [El("audio") EXCEPT !.name = item.Name, !.ref = item.Ref,
                                 !.offset = item.Offset, !.start = item.Start,
                                 !.duration = item.Duration]
      [] item.type = "Gap" ->
             [El("gap") EXCEPT !.name = item.Name, !.offset = item.Offset,
                               !.start = item.Start, !.duration = item.Duration]
      [] item.type = "RefClip" ->
             [El("ref-clip") EXCEPT !.name = item.Name, !.ref = item.Ref,
                                    !.offset = item.Offset, !.start = item.Start,
                                    !.duration = item.Duration,
                                    !.srcEnable = item.SrcEnable,
                                    !.markers = MarshalMarkers(item.Markers)]

\* type Spine struct
MarshalSpine(spine) ==
    RawSpine([i \in 1..Len(spine.Items) |-> MarshalItem(spine.Items[i])])

\* type Sequence struct: spine,omitempty
MarshalSequence(sequence) ==
    RawSequence(IF sequence.Spine = Nil THEN Nil
                ELSE Ptr(MarshalSpine(sequence.Spine[1])))

\* type Project struct: name, sequence,omitempty
MarshalProject(p) ==
    RawProject(p.Name,
               IF p.Sequence = Nil THEN Nil ELSE Ptr(MarshalSequence(p.Sequence[1])))

\* type FCPXML struct: library, event and project, each omitempty; the encoder
\* sets the project alone.
MarshalDocument(fcpxml) ==
    [Project |-> IF fcpxml.Project = Nil THEN Nil
                 ELSE Ptr(MarshalProject(fcpxml.Project[1])),
     Library |-> Nil, Event |-> Nil]

----------------------------------------------------------------------------
(* The timelines the encoder is run on.                                    *)

EncRange(start, duration, rate) ==
    NewTimeRange(NewRationalTime(start, rate), NewRationalTime(duration, rate))

Mk == NewMarker("Note", EncRange(12, 0, 24), MarkerColorGreen, "c")

VClip == EncClip("Clip 1", EncRange(0, 1200, 24), Nil, <<Mk>>)

VClipMedia == EncClip("From media", Nil, EncRange(0, 48, 24), <<>>)

VClipNoDuration == EncClip("No duration", Nil, Nil, <<>>)

VGap == EncGap("Gap", EncRange(0, 600, 24))

VStack ==
    EncStack("compound_clip_1", EncRange(24, 72, 24), Nil, <<Mk>>,
             [k \in {"fcpx_ref"} |-> StringValue("r3")])

VTransition == EncTransition("Dissolve")

VideoAlphabet == {VClip, VClipMedia, VClipNoDuration, VGap, VStack, VTransition}

AClip == EncClip("Sound", EncRange(10, 1200, 24), Nil, <<>>)

AClipNoDuration == EncClip("Silent", Nil, Nil, <<>>)

AGap == EncGap("Pause", EncRange(0, 600, 24))

ATransition == EncTransition("Crossfade")

AudioAlphabet == {AClip, AClipNoDuration, AGap, ATransition}

\* Items that vary what each conversion reads.
RichItems ==
    {EncGap("No duration", Nil),
     EncClip("Zero rate", EncRange(0, 0, 0), Nil, <<>>),
     EncStack("No duration", Nil, Nil, <<>>, Nil),
     EncStack("From children", Nil, EncRange(0, 48, 24), <<>>, Nil),
     EncStack("No metadata", EncRange(0, 48, 24), Nil, <<>>, Nil),
     EncStack("Other key", EncRange(0, 48, 24), Nil, <<>>,
              [k \in {"fcpx_src_enable"} |-> StringValue("audio")]),
     EncStack("Both keys", EncRange(0, 48, 24), Nil, <<Mk, Mk>>,
              [k \in {"fcpx_ref", "fcpx_src_enable"} |->
                  IF k = "fcpx_ref" THEN StringValue("r7") ELSE StringValue("video")]),
     EncStack("Number", EncRange(0, 48, 24), Nil, <<>>,
              [k \in {"fcpx_ref"} |-> IntValue(7)])}

EncTimeline(name, children) == [name |-> name, tracks |-> Ptr(children)]

\* One video and one audio track: what the index pairing sees.
PairedTimelines ==
    {EncTimeline("Paired", <<NewTrack("Video 1", TrackKindVideo, v),
                             NewTrack("Audio 1", TrackKindAudio, a)>>) :
        v \in SeqsUpTo(VideoAlphabet, MaxVideoItems),
        a \in SeqsUpTo(AudioAlphabet, MaxAudioItems)}

\* Children of the root stack: tracks of each kind, and a clip that is no track.
StackChildren ==
    {NewTrack("Video 1", TrackKindVideo, <<VClip, VGap>>),
     NewTrack("Video 2", TrackKindVideo, <<VStack>>),
     NewTrack("Empty", TrackKindVideo, <<>>),
     NewTrack("Audio 1", TrackKindAudio, <<AClip>>),
     NewTrack("Subtitles", "Subtitle", <<VClipMedia>>),
     VClipMedia}

ShapeTimelines ==
    {EncTimeline("Shape", c) : c \in SeqsUpTo(StackChildren, MaxStackChildren)}

RichTimelines ==
    {EncTimeline("Rich", <<NewTrack("Video 1", TrackKindVideo, <<x>>),
                           NewTrack("Audio 1", TrackKindAudio, <<AClip>>)>>) :
        x \in RichItems}

\* timeline.Tracks() == nil
NoStackTimeline == [name |-> "No stack", tracks |-> Nil]

EncTimelines ==
    PairedTimelines \cup ShapeTimelines \cup RichTimelines \cup {NoStackTimeline}

----------------------------------------------------------------------------
(* Encoder.Encode as a state machine.                                      *)

EncInit ==
    /\ DecoderIdle /\ CodecIdle
    /\ tl \in EncTimelines
    /\ epc = "start"
    /\ ci = 0
    /\ videoItems = <<>>
    /\ audioItems = <<>>
    /\ spineItems = <<>>
    /\ document = Nil
    /\ eerr = <<>>
    /\ written = <<>>

StackOf(t) == t.tracks[1]

\* Mutation of EncodeStart: Encode writes the XML header before it converts.
EncodeStartHeaderFirst ==
    /\ epc = "start"
    /\ written' = <<XMLHeader>>
    /\ IF tl.tracks = Nil
       THEN /\ epc' = "failed"
            /\ eerr' = <<"no tracks in timeline">>
            /\ UNCHANGED ci
       ELSE /\ epc' = "flatten"
            /\ ci' = 1
            /\ UNCHANGED eerr
    /\ UNCHANGED <<tl, videoItems, audioItems, spineItems, document,
                   decVars, codecVars>>

\* Encode -> convertFromTimeline -> convertTracksToSequence: "if stack == nil".
EncodeStart ==
    /\ epc = "start"
    /\ IF tl.tracks = Nil
       THEN /\ epc' = "failed"
            /\ eerr' = <<"no tracks in timeline">>
            /\ UNCHANGED ci
       ELSE /\ epc' = "flatten"
            /\ ci' = 1
            /\ UNCHANGED eerr
    /\ UNCHANGED <<tl, videoItems, audioItems, spineItems, document, written,
                   decVars, codecVars>>

\* One iteration of "for _, child := range stack.Children()".
FlattenChild ==
    /\ epc = "flatten" /\ ci <= Len(StackOf(tl))
    /\ videoItems' = flattenVideo(videoItems, StackOf(tl)[ci])
    /\ audioItems' = flattenAudio(audioItems, StackOf(tl)[ci])
    /\ ci' = ci + 1
    /\ UNCHANGED <<epc, tl, spineItems, document, eerr, written, decVars, codecVars>>

\* The loop over the stack's children is over; the loop over videoItems begins.
FlattenDone ==
    /\ epc = "flatten" /\ ci > Len(StackOf(tl))
    /\ epc' = "items"
    /\ ci' = 1
    /\ UNCHANGED <<tl, videoItems, audioItems, spineItems, document, eerr, written,
                   decVars, codecVars>>

\* One iteration of "for i, item := range videoItems".
EncodeItem ==
    /\ epc = "items" /\ ci <= Len(videoItems)
    /\ LET r == spineStep(spineItems, Encoder_convertItem(videoItems[ci], TRUE),
                          audioItems, ci)
       IN  IF r.err # <<>>
           THEN /\ epc' = "failed"
                /\ eerr' = r.err
                /\ UNCHANGED <<ci, spineItems>>
           ELSE /\ spineItems' = r.items
                /\ ci' = ci + 1
                /\ UNCHANGED <<epc, eerr>>
    /\ UNCHANGED <<tl, videoItems, audioItems, document, written, decVars, codecVars>>

\* convertTracksToSequence returns the sequence, convertFromTimeline the FCPXML.
BuildDocument ==
    /\ epc = "items" /\ ci > Len(videoItems)
    /\ document' = Ptr(FCPXMLOf(tl.name, SequenceOf(spineItems)))
    /\ epc' = "write"
    /\ UNCHANGED <<tl, ci, videoItems, audioItems, spineItems, eerr, written,
                   decVars, codecVars>>

\* Encode: the XML header, the document and the final newline are written.
WriteDocument ==
    /\ epc = "write"
    /\ written' = <<XMLHeader, MarshalDocument(document[1]), "\n">>
    /\ epc' = "done"
    /\ UNCHANGED <<tl, ci, videoItems, audioItems, spineItems, document, eerr,
                   decVars, codecVars>>

EncNext ==
    \/ EncodeStart
    \/ FlattenChild
    \/ FlattenDone
    \/ EncodeItem
    \/ BuildDocument
    \/ WriteDocument

EncSpec == EncInit /\ [][EncNext]_vars

----------------------------------------------------------------------------
(* Encode followed by Decode: the bytes Encode wrote to a buffer are       *)
(* handed to a Decoder.                                                    *)

\* Clips, gaps and stacks whose source range has a whole duration at a whole rate
\* of at least 1.
WholeItems ==
    {VClip,
     EncClip("Clip 2", EncRange(0, 1800, 24), Nil, <<>>),
     EncClip("One", EncRange(3, 7, 1), EncRange(0, 100, 1), <<>>),
     VGap,
     EncGap("", EncRange(0, 12, 30)),
     VStack,
     EncStack("No metadata", EncRange(0, 48, 24), Nil, <<>>, Nil)}

\* Items without a source range, with a zero rate, with a fractional duration.
OtherItems ==
    {VClipMedia,
     EncClip("Zero rate", EncRange(0, 0, 0), Nil, <<>>),
     EncClip("Fraction", NewTimeRange(NewRationalTime(0, 24), HalfTime(3, 48)), Nil,
             <<>>)}

RoundTripItems == WholeItems \cup OtherItems

\* Timelines whose root stack holds one video track.
RoundTripTimelines ==
    {EncTimeline("Example Timeline", <<NewTrack("Video 1", TrackKindVideo, c)>>) :
        c \in SeqsUpTo(RoundTripItems, MaxRoundTrip)}
    \cup {EncTimeline("", <<NewTrack("V", TrackKindVideo, <<VClip, VGap, VStack>>)>>)}

RoundTripInit ==
    /\ DecoderIdle /\ CodecIdle
    /\ tl \in RoundTripTimelines
    /\ epc = "start"
    /\ ci = 0
    /\ videoItems = <<>>
    /\ audioItems = <<>>
    /\ spineItems = <<>>
    /\ document = Nil
    /\ eerr = <<>>
    /\ written = <<>>

\* NewDecoder(&buf) on the buffer Encode wrote to, and the call of Decode: the
\* XML decoder reads the header, then the document element.
DecodeWritten ==
    /\ epc = "done" /\ pc = "idle"
    /\ doc' = written[2]
    /\ pc' = "unmarshal"
    /\ cur' = 1
    /\ UNCHANGED <<pos, items, spines, project, idx, videoTrack, audioTrack, timeline,
                   err, codecVars, encVars>>

RoundTripNext ==
    \/ EncodeStart
    \/ FlattenChild
    \/ FlattenDone
    \/ EncodeItem
    \/ BuildDocument
    \/ WriteDocument
    \/ DecodeWritten
    \/ StartProject
    \/ SpineChild
    \/ SpineEnd
    \/ UnmarshalDone
    \/ Resolve
    \/ ConvertItem
    \/ AttachTracks

RoundTripSpec == RoundTripInit /\ [][RoundTripNext]_vars

----------------------------------------------------------------------------
(* Vocabulary of the properties.                                           *)

\* xml.Decode failed: convertToTimeline was never called.
XMLFailed == pc = "failed" /\ err[1] = "failed to parse FCPX XML"

\* convertToTimeline has resolved the project (or has failed to).
Resolved == pc \in {"convert", "done", "failed"} /\ ~XMLFailed

NoProjectError == pc = "failed" /\ err = <<"no project found in FCPX XML">>

\* The first library event of the document, in document order, that has a project.
FirstEventWithProject(d) ==
    CHOOSE e \in 1..Len(LibEvents(d)) :
        /\ Len(LibEvents(d)[e].Projects) > 0
        /\ \A f \in 1..(e - 1) : Len(LibEvents(d)[f].Projects) = 0

SomeLibraryEventProject(d) ==
    \E e \in 1..Len(LibEvents(d)) : Len(LibEvents(d)[e].Projects) > 0

\* The tracks of the returned timeline.
Tracks == timeline[1].tracks

----------------------------------------------------------------------------
(* C1: project resolution is ordered: a root-level project is selected even *)
(* when a library or event also holds projects; otherwise the library's     *)
(* first direct project; otherwise the first project of the first library   *)
(* event, in document order, that has any project. The timeline takes the   *)
(* selected project's name.                                                 *)

C1_Expected(d) ==
    IF d.Project # Nil THEN d.Project[1].Name
    ELSE IF Len(LibProjects(d)) > 0 THEN LibProjects(d)[1].Name
    ELSE LibEvents(d)[FirstEventWithProject(d)].Projects[1].Name

C1_Covered(d) ==
    d.Project # Nil \/ Len(LibProjects(d)) > 0 \/ SomeLibraryEventProject(d)

C1_ProjectResolution ==
    (Resolved /\ C1_Covered(doc)) =>
        /\ project # Nil
        /\ project[1].Name = C1_Expected(doc)
        /\ ~NoProjectError
        /\ (pc = "done" => timeline[1].name = C1_Expected(doc))

\* Reached: no root project, a library without direct project whose first event is
\* empty and whose second event has two projects; the first of those is selected.
C1_Witness ==
    /\ pc = "done"
    /\ doc.Project = Nil /\ doc.Library # Nil /\ doc.Event # Nil
    /\ Len(LibProjects(doc)) = 0
    /\ Len(LibEvents(doc)) = 2
    /\ Len(LibEvents(doc)[1].Projects) = 0
    /\ Len(LibEvents(doc)[2].Projects) = 2
    /\ Len(EventProjects(doc)) > 0
    /\ timeline[1].name = "E2 P1"

(* C2: decode fails with the no-project error only when none of the four    *)
(* positions (root project, library projects, library events' projects,     *)
(* root event's projects) holds a project; a root-level event's first       *)
(* project is selected whenever no earlier position holds one, also when a  *)
(* library element is present but reaches no project.                       *)

NoProjectAnywhere(d) == ProjectList(d) = <<>>

C2_NoProjectOnlyWhenNone ==
    Resolved =>
        /\ (NoProjectError => NoProjectAnywhere(doc))
        /\ (~C1_Covered(doc) /\ Len(EventProjects(doc)) > 0 =>
               project # Nil /\ project[1].Name = EventProjects(doc)[1].Name)

(* C3: the root stack of a decoded timeline holds at most one video track   *)
(* ("Video 1") and at most one audio track ("Audio 1"), video before audio, *)
(* each with at least one child; a project with an empty spine, no spine or *)
(* no sequence decodes without error to a timeline with no child at all.    *)

IsVideoTrack(t) == t.name = "Video 1" /\ t.kind = "Video"

IsAudioTrack(t) == t.name = "Audio 1" /\ t.kind = "Audio"

EmptyProject(p) ==
    \/ p.Sequence = Nil
    \/ p.Sequence[1].Spine = Nil
    \/ p.Sequence[1].Spine[1].Items = <<>>

C3_TrackShape ==
    /\ pc = "done" =>
          /\ \/ Tracks = <<>>
             \/ Len(Tracks) = 1 /\ (IsVideoTrack(Tracks[1]) \/ IsAudioTrack(Tracks[1]))
             \/ Len(Tracks) = 2 /\ IsVideoTrack(Tracks[1]) /\ IsAudioTrack(Tracks[2])
          /\ \A i \in 1..Len(Tracks) : Len(Tracks[i].children) >= 1
    /\ (Resolved /\ project # Nil /\ EmptyProject(project[1])) =>
          /\ pc # "failed"
          /\ (pc = "done" => Tracks = <<>>)

C3_Witness ==
    /\ pc = "done"
    /\ Len(Tracks) = 2
    /\ Len(Tracks[1].children) = 2
    /\ Len(Tracks[2].children) = 1

(* C4 (as written): a spine made only of Video and Gap items yields exactly *)
(* one video track holding one child per spine item, and no audio track.    *)

SelectedRaw ==
    CHOOSE p \in {ProjectList(doc)[i] : i \in 1..Len(ProjectList(doc))} :
        p.Name = project[1].Name

OnlyVideoAndGap(children) ==
    /\ children # <<>>
    /\ \A i \in 1..Len(children) : children[i].tag \in {"video", "gap"}

GapCount(children) ==
    Cardinality({i \in 1..Len(children) : children[i].tag = "gap"})

C4_VideoGapSpine ==
    pc = "done" /\ HasSpine(SelectedRaw) /\ OnlyVideoAndGap(SpineChildren(SelectedRaw))
        => /\ Len(Tracks) = 1
           /\ IsVideoTrack(Tracks[1])
           /\ Len(Tracks[1].children) = Len(SpineChildren(SelectedRaw))

(* C4 (amended): a spine made only of Video and Gap items yields exactly    *)
(* one video track holding one child per spine item; an audio track is      *)
(* present iff the spine holds a Gap, and then holds one gap per Gap item.  *)

C4_VideoGapSpineAmended ==
    pc = "done" /\ HasSpine(SelectedRaw) /\ OnlyVideoAndGap(SpineChildren(SelectedRaw))
        => /\ IsVideoTrack(Tracks[1])
           /\ Len(Tracks[1].children) = Len(SpineChildren(SelectedRaw))
           /\ Len(Tracks) = (IF GapCount(SpineChildren(SelectedRaw)) > 0 THEN 2 ELSE 1)
           /\ Len(Tracks) = 2 =>
                 /\ IsAudioTrack(Tracks[2])
                 /\ Len(Tracks[2].children) = GapCount(SpineChildren(SelectedRaw))
                 /\ \A i \in 1..Len(Tracks[2].children) :
                        Tracks[2].children[i].kind = "Gap"

C4_Witness ==
    /\ pc = "done"
    /\ HasSpine(SelectedRaw)
    /\ Len(SpineChildren(SelectedRaw)) = 3
    /\ SpineChildren(SelectedRaw)[1].tag = "video"
    /\ SpineChildren(SelectedRaw)[2].tag = "gap"
    /\ SpineChildren(SelectedRaw)[3].tag = "video"
    /\ Len(Tracks[1].children) = 3

----------------------------------------------------------------------------
(* Properties of one conversion step.                                      *)

\* convertSequenceToTracks is about to convert a spine item of the given type.
Converting(type) ==
    pc = "convert" /\ idx <= Len(SpineItems) /\ SpineItems[idx].type = type

Item == SpineItems[idx]

WellFormed(s) == parseRationalTime(s).err = ""

Last(q) == q[Len(q)]

\* q2 is q1 with n more elements.
Grows(q1, q2, n) == Len(q2) = Len(q1) + n /\ SubSeq(q2, 1, Len(q1)) = q1

ZeroValue == [value |-> 0, rate |-> 0]

Range(start, duration) == [start |-> start, duration |-> duration]

(* C5: every Gap item with a well-formed duration appends exactly one gap   *)
(* to the video track and one to the audio track, each with the gap's name  *)
(* and duration and a source-range start of the zero time, whatever the     *)
(* gap's own start and offset attributes are.                               *)

ExpectedGap(gap) ==
    [kind |-> "Gap", name |-> gap.Name,
     source_range |-> Range(ZeroValue, parseRationalTime(gap.Duration).rt)]

C5_GapStep ==
    Converting("Gap") /\ WellFormed(Item.Duration) =>
        /\ pc' = "convert"
        /\ videoTrack' = Append(videoTrack, ExpectedGap(Item))
        /\ audioTrack' = Append(audioTrack, ExpectedGap(Item))
        /\ Item.Duration = T_6_2 =>
               Last(videoTrack').source_range.duration = [value |-> 6, rate |-> 2]

C5_GapFanOut == [][C5_GapStep]_vars

\* Reached: a gap whose start and offset are malformed has been converted.
C5_Witness ==
    /\ pc = "convert" /\ idx = 2
    /\ SpineItems[1].type = "Gap"
    /\ ~WellFormed(SpineItems[1].Start) /\ ~WellFormed(SpineItems[1].Offset)
    /\ SpineItems[1].Duration = T_6_2
    /\ Len(videoTrack) = 1 /\ Len(audioTrack) = 1
    /\ videoTrack[1].source_range = Range(ZeroValue, [value |-> 6, rate |-> 2])

(* C6: for a Clip item that converts, a clip is appended to the video track *)
(* iff the item has a nested video or a non-empty ref, and to the audio     *)
(* track iff it has a nested audio or a non-empty audioDuration; with both, *)
(* the two clips have the same name and source range; with neither, no      *)
(* child is appended.                                                       *)

HasVideoPart(clip) == clip.Video # Nil \/ clip.Ref # ""

HasAudioPart(clip) == clip.Audio # Nil \/ clip.AudioDuration # <<>>

IsClipOf(child, clip) ==
    /\ child.kind = "Clip"
    /\ child.name = clip.Name
    /\ child.source_range =
           Range(parseRationalTime(clip.Start).rt, parseRationalTime(clip.Duration).rt)

C6_ClipStep ==
    Converting("Clip") /\ pc' = "convert" =>
        /\ Grows(videoTrack, videoTrack', IF HasVideoPart(Item) THEN 1 ELSE 0)
        /\ Grows(audioTrack, audioTrack', IF HasAudioPart(Item) THEN 1 ELSE 0)
        /\ HasVideoPart(Item) => IsClipOf(Last(videoTrack'), Item)
        /\ HasAudioPart(Item) => IsClipOf(Last(audioTrack'), Item)
        /\ HasVideoPart(Item) /\ HasAudioPart(Item) =>
               /\ Last(videoTrack').name = Last(audioTrack').name
               /\ Last(videoTrack').source_range = Last(audioTrack').source_range

C6_ClipBranches == [][C6_ClipStep]_vars

\* Reached: a clip with a ref and an audioDuration but no nested element is on
\* both tracks.
C6_Witness ==
    /\ pc = "convert" /\ idx = 2
    /\ SpineItems[1].type = "Clip"
    /\ SpineItems[1].Video = Nil /\ SpineItems[1].Ref # ""
    /\ SpineItems[1].Audio = Nil /\ SpineItems[1].AudioDuration # <<>>
    /\ Len(videoTrack) = 1 /\ Len(audioTrack) = 1
    /\ videoTrack[1] = audioTrack[1]

(* C8 vocabulary, used by C7 too: the timeline markers of a marker list.    *)

ExpectedMarker(m) ==
    [name |-> m.Value, comment |-> m.Note, color |-> "GREEN",
     marked_range |->
         Range(parseRationalTime(m.Start).rt,
               IF m.Duration = <<>> THEN ZeroValue
               ELSE parseRationalTime(m.Duration).rt)]

ExpectedMarkers(ms) == [i \in 1..Len(ms) |-> ExpectedMarker(ms[i])]

(* C7: every RefClip item that converts yields exactly one Stack with the   *)
(* ref-clip's name, source range and markers, metadata fcpx_ref = the       *)
(* reference id and fcpx_src_enable present iff srcEnable is non-empty;     *)
(* the stack goes to the audio track iff srcEnable is exactly "audio", and  *)
(* to the video track otherwise, never to both.                             *)

IsStackOf(child, r) ==
    /\ child.kind = "Stack"
    /\ child.name = r.Name
    /\ child.source_range =
           Range(parseRationalTime(r.Start).rt, parseRationalTime(r.Duration).rt)
    /\ child.markers = ExpectedMarkers(r.Markers)
    /\ child.metadata["fcpx_ref"] = r.Ref
    /\ ("fcpx_src_enable" \in DOMAIN child.metadata) = (r.SrcEnable # "")
    /\ r.SrcEnable # "" => child.metadata["fcpx_src_enable"] = r.SrcEnable
    /\ DOMAIN child.metadata \subseteq {"fcpx_ref", "fcpx_src_enable"}

C7_RefClipStep ==
    Converting("RefClip") /\ pc' = "convert" =>
        IF Item.SrcEnable = "audio"
        THEN /\ videoTrack' = videoTrack
             /\ Grows(audioTrack, audioTrack', 1)
             /\ IsStackOf(Last(audioTrack'), Item)
        ELSE /\ audioTrack' = audioTrack
             /\ Grows(videoTrack, videoTrack', 1)
             /\ IsStackOf(Last(videoTrack'), Item)

C7_RefClipRouting == [][C7_RefClipStep]_vars

\* Reached: a ref-clip with srcEnable="Audio" (not "audio") and markers is a stack
\* on the video track.
C7_Witness ==
    /\ pc = "convert" /\ idx = 2
    /\ SpineItems[1].type = "RefClip"
    /\ SpineItems[1].SrcEnable = "Audio"
    /\ SpineItems[1].Ref = "r3"
    /\ audioTrack = <<>> /\ Len(videoTrack) = 1
    /\ videoTrack[1].kind = "Stack"
    /\ Len(videoTrack[1].markers) = 2
    /\ DOMAIN videoTrack[1].metadata = {"fcpx_ref", "fcpx_src_enable"}

(* C8: each marker of a converted Clip, Video or RefClip becomes exactly    *)
(* one marker of the resulting item, in source order, with name = value,    *)
(* comment = note, colour green and the marked range parsed from start and  *)
(* duration; an empty duration gives a zero-length range and no error.      *)

MarkersParse(ms) ==
    \A i \in 1..Len(ms) :
        WellFormed(ms[i].Start) /\ (ms[i].Duration = <<>> \/ WellFormed(ms[i].Duration))

NewChildren(before, after) == {after[i] : i \in (Len(before) + 1)..Len(after)}

C8_MarkerStep ==
    \A type \in {"Clip", "Video", "RefClip"} :
        Converting(type) =>
            /\ pc' = "convert" =>
                  \A c \in NewChildren(videoTrack, videoTrack')
                             \cup NewChildren(audioTrack, audioTrack') :
                     /\ c.markers = ExpectedMarkers(Item.Markers)
                     /\ \A i \in 1..Len(Item.Markers) :
                            Item.Markers[i] = DecodeMarker(M1) =>
                                c.markers[i] =
                                    [name |-> "Test Marker", comment |-> "Marker comment",
                                     color |-> "GREEN",
                                     marked_range |-> Range([value |-> 6, rate |-> 2],
                                                            [value |-> 12, rate |-> 4])]
            /\ (WellFormed(Item.Duration) /\ WellFormed(Item.Start)
                   /\ MarkersParse(Item.Markers)) => pc' = "convert"

KnownChildren(children) == SelectSeq(children, LAMBDA e : e.tag \in KnownTags)

\* The element the spine item at index i was decoded from.
RawItem(i) == KnownChildren(SpineChildren(SelectedRaw))[i]

C9_AudioStep ==
    Converting("Audio") /\ pc' = "convert" =>
        /\ Grows(audioTrack, audioTrack', 1)
        /\ Last(audioTrack').markers = ExpectedMarkers(DecodeMarkers(RawItem(idx).markers))

C9_AudioMarkers == [][C9_AudioStep]_vars

(* C10: decoding a spine yields one item per child whose tag is clip,       *)
(* asset-clip, video, audio, gap, title, transition or ref-clip, in         *)
(* document order; a child with any other tag is skipped with its sub-tree, *)
(* adds no item and causes no failure.                                      *)

InSpine == pc = "unmarshal" /\ pos >= 1 /\ pos <= Len(SpineChildren(CurProject))

Child == SpineChildren(CurProject)[pos]

C10_ChildStep ==
    InSpine =>
        /\ pc' = "unmarshal"
        /\ pos' = pos + 1
        /\ IF Child.tag \in KnownTags
           THEN /\ Grows(items, items', 1)
                /\ Last(items').Name = Child.name
                /\ Last(items').Duration = Child.duration
           ELSE items' = items

C10_SpineItems == [][C10_ChildStep]_vars

\* The same for every tag but "clip".
C10_ChildStepExceptClip == Child.tag # "clip" => C10_ChildStep

C10_SpineItemsExceptClip == [][InSpine => C10_ChildStepExceptClip]_vars

(* C13: every time value that decode obtains from a non-empty,             *)
(* successfully parsed attribute has a strictly positive rate: a fraction  *)
(* whose denominator is zero or negative is never accepted as a time value *)
(* with rate <= 0.                                                         *)

PositiveRate(attr, rt) == attr # <<>> => rt.rate > 0

MarkersPositiveRate(ms, markers) ==
    \A i \in 1..Len(ms) :
        /\ PositiveRate(ms[i].Start, markers[i].marked_range.start)
        /\ PositiveRate(ms[i].Duration, markers[i].marked_range.duration)

C13_RateStep ==
    \A type \in {"Clip", "Video", "Audio", "Gap", "RefClip"} :
        (Converting(type) /\ pc' = "convert") =>
            \A c \in NewChildren(videoTrack, videoTrack')
                       \cup NewChildren(audioTrack, audioTrack') :
                /\ PositiveRate(Item.Duration, c.source_range.duration)
                /\ type # "Gap" => PositiveRate(Item.Start, c.source_range.start)
                /\ type \in {"Clip", "Video", "RefClip"} =>
                       MarkersPositiveRate(Item.Markers, c.markers)

C13_PositiveRate == [][C13_RateStep]_vars

(* C14: if a converted spine item (Clip, Video, Audio, Gap, RefClip) has a *)
(* malformed non-empty duration, or a Clip / Video / Audio / RefClip a     *)
(* malformed non-empty start, or one of their converted markers a          *)
(* malformed start or non-empty duration, Decode returns an error whose    *)
(* message names the element kind and the field (duration or start) and    *)
(* returns no timeline, whatever items were converted before.              *)

ElementKind(type) ==
    CASE type = "Clip" -> "clip" [] type = "Video" -> "video"
      [] type = "Audio" -> "audio" [] type = "Gap" -> "gap"
      [] type = "RefClip" -> "ref-clip"

BadDuration(item) == ~WellFormed(item.Duration)

BadStart(item) == item.type # "Gap" /\ ~WellFormed(item.Start)

BadMarker(item) ==
    /\ item.type \in {"Clip", "Video", "RefClip"}
    /\ \E i \in 1..Len(item.Markers) :
           ~WellFormed(item.Markers[i].Start) \/ ~WellFormed(item.Markers[i].Duration)

C14_MalformedStep ==
    \A type \in {"Clip", "Video", "Audio", "Gap", "RefClip"} :
        (Converting(type) /\ (BadDuration(Item) \/ BadStart(Item) \/ BadMarker(Item))) =>
            /\ pc' = "failed"
            /\ timeline' = Nil
            /\ Len(err') = 4 /\ err'[1] = "failed to parse"
            /\ err'[2] \in {ElementKind(type), "marker"}
            /\ err'[3] \in {"duration", "start"}
            /\ BadDuration(Item) => err'[2] = ElementKind(type) /\ err'[3] = "duration"
            /\ (~BadDuration(Item) /\ BadStart(Item)) =>
                   err'[2] = ElementKind(type) /\ err'[3] = "start"
            /\ (~BadDuration(Item) /\ ~BadStart(Item)) => err'[2] = "marker"

C14_MalformedTime == [][C14_MalformedStep]_vars

\* Reached: the third item of a spine has a malformed duration; the two items
\* converted before it are dropped with the timeline.
C14_Witness ==
    /\ pc = "failed" /\ idx = 3
    /\ SpineItems[3].type = "Video" /\ SpineItems[3].Duration = T_bad
    /\ Len(videoTrack) = 2
    /\ timeline = Nil
    /\ err[2] = "video" /\ err[3] = "duration"

(* C19: Transition spine items add no child to any track and never cause  *)
(* a decode error, even with malformed duration or offset attributes; the  *)
(* same holds for Title spine items, which the decoder also passes over.   *)

C19_SkipStep ==
    (Converting("Transition") \/ Converting("Title")) =>
        /\ pc' = "convert"
        /\ idx' = idx + 1
        /\ videoTrack' = videoTrack
        /\ audioTrack' = audioTrack
        /\ err' = <<>>
        /\ timeline' = timeline

C19_SkippedItems == [][C19_SkipStep]_vars

\* Reached: a transition with malformed duration and offset and a title with a
\* malformed duration precede a video; the timeline holds the video's clip alone.
C19_Witness ==
    /\ pc = "done" /\ err = <<>>
    /\ ~EmptyProject(project[1])
    /\ Len(SpineItems) = 3
    /\ SpineItems[1].type = "Transition"
    /\ ~WellFormed(SpineItems[1].Duration) /\ ~WellFormed(SpineItems[1].Offset)
    /\ SpineItems[2].type = "Title" /\ ~WellFormed(SpineItems[2].Duration)
    /\ SpineItems[3].type = "Video"
    /\ Len(Tracks) = 1
    /\ Len(Tracks[1].children) = 1

(* C21: a Video item that converts appends exactly one clip to the video   *)
(* track and nothing to the audio track, an Audio item that converts       *)
(* appends exactly one clip to the audio track and nothing to the video    *)
(* track; every step only appends, so that the children of each track are  *)
(* in the order of the spine items they came from.                         *)

\* The clip a Video or Audio item stands for.
IsSingleClipOf(child, item) ==
    /\ child.kind = "Clip"
    /\ child.name = item.Name
    /\ child.source_range.duration = parseRationalTime(item.Duration).rt

ItemNames(its) == [i \in 1..Len(its) |-> its[i].Name]

ChildNames(children) == [i \in 1..Len(children) |-> children[i].name]

\* a is b with some elements left out, the others in b's order.
RECURSIVE IsSubsequence(_, _)
IsSubsequence(a, b) ==
    IF a = <<>> THEN TRUE
    ELSE IF b = <<>> THEN FALSE
    ELSE IF a[1] = b[1] THEN IsSubsequence(Tail(a), Tail(b))
    ELSE IsSubsequence(a, Tail(b))

\* The spine items converted so far.
ConvertedItems == SubSeq(SpineItems, 1, idx - 1)

C21_SingleClipStep ==
    /\ Converting("Video") /\ pc' = "convert" =>
           /\ Grows(videoTrack, videoTrack', 1)
           /\ IsSingleClipOf(Last(videoTrack'), Item)
           /\ audioTrack' = audioTrack
    /\ Converting("Audio") /\ pc' = "convert" =>
           /\ Grows(audioTrack, audioTrack', 1)
           /\ IsSingleClipOf(Last(audioTrack'), Item)
           /\ videoTrack' = videoTrack
    /\ pc = "convert" /\ pc' = "convert" =>
           /\ SubSeq(videoTrack', 1, Len(videoTrack)) = videoTrack
           /\ SubSeq(audioTrack', 1, Len(audioTrack)) = audioTrack

C21_SpineOrder ==
    pc = "convert" \/ (pc = "done" /\ ~EmptyProject(project[1])) =>
        /\ IsSubsequence(ChildNames(videoTrack), ItemNames(ConvertedItems))
        /\ IsSubsequence(ChildNames(audioTrack), ItemNames(ConvertedItems))

C21_SingleClipInOrder == [][C21_SingleClipStep]_vars /\ []C21_SpineOrder

\* Reached: an asset clip, a video and an audio were decoded; the video track
\* holds the asset clip's and the video's clips, the audio track the audio's.
C21_Witness ==
    /\ pc = "done" /\ err = <<>>
    /\ ~EmptyProject(project[1])
    /\ Len(SpineItems) = 3
    /\ SpineItems[1].type = "Clip" /\ SpineItems[1].Name = "Asset"
    /\ SpineItems[2].type = "Video"
    /\ SpineItems[3].type = "Audio"
    /\ Len(Tracks) = 2
    /\ ChildNames(Tracks[1].children) = <<"Asset", SpineItems[2].Name>>
    /\ ChildNames(Tracks[2].children) = <<SpineItems[3].Name>>

----------------------------------------------------------------------------
(* Properties of the rational time codec (CodecSpec).                      *)

SlashCount(s) == Cardinality({i \in 1..Len(s) : s[i] = "/"})

\* The text without one trailing "s".
Body(s) == IF s # <<>> /\ Last(s) = "s" THEN SubSeq(s, 1, Len(s) - 1) ELSE s

BeforeSlash(s) == SubSeq(s, 1, (CHOOSE i \in 1..Len(s) : s[i] = "/") - 1)

AfterSlash(s) == SubSeq(s, (CHOOSE i \in 1..Len(s) : s[i] = "/") + 1, Len(s))

\* A decimal numeral: an optional sign, then at least one digit.
IsNumeral(s) ==
    \/ Len(s) >= 1 /\ \A i \in 1..Len(s) : s[i] \in Digits
    \/ Len(s) >= 2 /\ s[1] \in {"-", "+"} /\ \A i \in 2..Len(s) : s[i] \in Digits

RECURSIVE Pow10(_)
Pow10(n) == IF n = 0 THEN 1 ELSE 10 * Pow10(n - 1)

RECURSIVE DigitSum(_, _)
DigitSum(s, i) ==
    IF i > Len(s) THEN 0
    ELSE (IF s[i] \in Digits THEN DigitVal(s[i]) * Pow10(Len(s) - i) ELSE 0)
             + DigitSum(s, i + 1)

NumeralValue(s) == IF s[1] = "-" THEN 0 - DigitSum(s, 1) ELSE DigitSum(s, 1)

IsFraction(s) ==
    SlashCount(s) = 1 /\ IsNumeral(BeforeSlash(s)) /\ IsNumeral(AfterSlash(s))

(* C11: parseRationalTime returns the zero time and no error on the empty  *)
(* string; (n, d) on "n/d" with an optional trailing "s" and both parts    *)
(* numeric; (n, 24) on a bare number n with an optional trailing "s"; an   *)
(* error and the zero time on every other input, "invalid" and strings     *)
(* with more than one "/" included.                                        *)

C11_ParseDispatch ==
    cpc = "done" =>
        /\ IF text = <<>> THEN parsed = [rt |-> ZeroValue, err |-> ""]
           ELSE IF IsFraction(Body(text))
           THEN /\ parsed.err = ""
                /\ parsed.rt = [value |-> NumeralValue(BeforeSlash(Body(text))),
                                rate |-> NumeralValue(AfterSlash(Body(text)))]
           ELSE IF IsNumeral(Body(text))
           THEN /\ parsed.err = ""
                /\ parsed.rt = [value |-> NumeralValue(Body(text)), rate |-> 24]
           ELSE parsed.err # "" /\ parsed.rt = ZeroValue
        /\ text = T_1001_30000 => parsed = [rt |-> [value |-> 1001, rate |-> 30000],
                                            err |-> ""]
        /\ text = T_24 => parsed = [rt |-> [value |-> 24, rate |-> 24], err |-> ""]
        /\ text \in {T_invalid, T_bad2} => parsed.err # "" /\ parsed.rt = ZeroValue

\* Reached: "1001/30000s" has been parsed to (1001, 30000).
C11_Witness ==
    /\ cpc = "done" /\ rtime = ZeroTime
    /\ text = T_1001_30000
    /\ parsed.rt = [value |-> 1001, rate |-> 30000]

(* C12: for every integer value and every integer rate > 0, parsing the    *)
(* text formatRationalTime writes for (value, rate) returns exactly        *)
(* (value, rate) and no error.                                             *)

\* The codec has formatted rtime and parsed the text back.
Formatted == cpc = "done" /\ rtime # ZeroTime

C12_RoundTrip ==
    (Formatted /\ ~InHalves(rtime) /\ rtime.rate > 0) =>
        /\ parsed.err = ""
        /\ parsed.rt.value = rtime.value
        /\ parsed.rt.rate = rtime.rate

\* Reached: (-12, 7) has been written as "-12/7s" and read back.
C12_Witness ==
    /\ Formatted
    /\ rtime = [value |-> 0 - 12, rate |-> 7]
    /\ text = <<"-", "1", "2", "/", "7", "s">>
    /\ parsed.rt = rtime

(* C22: a rate <= 0 is never encoded: every text formatRationalTime writes  *)
(* is "<integer>/<integer>s" with a denominator of at least 1, and a time  *)
(* whose rate is <= 0 is written as "0/1s"; value and rate are truncated   *)
(* to integers, and this holds for positive rates below 1 as well.         *)

\* "<integer>/<integer>s", the integers as the verb %d writes them.
IsInteger(s) == IsNumeral(s) /\ s[1] # "+"

IsTimeAttribute(s) ==
    /\ s # <<>> /\ Last(s) = "s"
    /\ SlashCount(s) = 1
    /\ IsInteger(BeforeSlash(Body(s))) /\ IsInteger(AfterSlash(Body(s)))

Denominator(s) == NumeralValue(AfterSlash(Body(s)))

C22_FormatStep ==
    cpc = "format" =>
        /\ IsTimeAttribute(text')
        /\ Denominator(text') >= 1
        /\ RateAtMostZero(rtime) => text' = <<"0", "/", "1", "s">>

C22_RateNeverBelowOne == [][C22_FormatStep]_vars

\* The same for the times whose rate is not strictly between 0 and 1.
C22_FormatStepFromOne ==
    cpc = "format" /\ (RateAtMostZero(rtime) \/ Int64Rate(rtime) >= 1) =>
        /\ IsTimeAttribute(text')
        /\ Denominator(text') >= 1
        /\ RateAtMostZero(rtime) => text' = <<"0", "/", "1", "s">>

C22_RateFromOne == [][C22_FormatStepFromOne]_vars

\* Reached: the value 1.5 at the rate 0.5 has been written as "1/0s".
C22_ZeroDenominator ==
    /\ cpc = "parse"
    /\ rtime = HalfTime(3, 1)
    /\ text = <<"1", "/", "0", "s">>

----------------------------------------------------------------------------
(* Properties of Encoder.Encode (EncSpec).                                 *)

\* convertTracksToSequence is about to convert the video item at index ci.
Encoding == epc = "items" /\ ci <= Len(videoItems)

VideoItem == videoItems[ci]

\* The audio item at the same index exists and is a plain clip.
PairedAudioClip == ci <= Len(audioItems) /\ audioItems[ci].kind = "Clip"

(* C15: for every video item at index i that is emitted as a clip, if the  *)
(* flattened audio-item list has an item at index i and that item is a     *)
(* plain clip, the emitted spine entry carries that audio clip (name,      *)
(* duration, start) in its audio sub-field, and the audio clip is not      *)
(* emitted as a separate spine entry.                                      *)

CarriesAudio(entry, clip) ==
    /\ "Audio" \in DOMAIN entry
    /\ entry.Audio # Nil
    /\ entry.Audio[1].Name = clip.name
    /\ entry.Audio[1].Duration = formatRationalTime(Duration(clip).rt)
    /\ entry.Audio[1].Start = formatRationalTime(StartTime(clip))

C15_FoldStep ==
    (Encoding /\ VideoItem.kind = "Clip" /\ PairedAudioClip /\ epc' = "items") =>
        /\ Grows(spineItems, spineItems', 1)
        /\ Last(spineItems').Name = VideoItem.name
        /\ CarriesAudio(Last(spineItems'), audioItems[ci])

C15_AudioFolded == [][C15_FoldStep]_vars

(* C16: Encode fails with an unsupported-item-kind error whenever any      *)
(* child of any video-kind or audio-kind track of the timeline is not a    *)
(* Clip, a Gap or a Stack.                                                 *)

SupportedKinds == {"Clip", "Gap", "Stack"}

\* The children of the timeline's tracks of the given kind, track after track.
RECURSIVE ChildrenOfKind(_, _)
ChildrenOfKind(children, kind) ==
    IF children = <<>> THEN <<>>
    ELSE (IF IsTrack(children[1]) /\ children[1].kind = kind
          THEN children[1].children ELSE <<>>)
             \o ChildrenOfKind(Tail(children), kind)

HasUnsupported(t, kind) ==
    /\ t.tracks # Nil
    /\ \E i \in 1..Len(ChildrenOfKind(StackOf(t), kind)) :
           ChildrenOfKind(StackOf(t), kind)[i].kind \notin SupportedKinds

Succeeded == epc \in {"write", "done"}

UnsupportedError == epc = "failed" /\ eerr[1] = "unsupported item type"

C16_UnsupportedStep ==
    /\ (Encoding /\ VideoItem.kind \notin SupportedKinds) => UnsupportedError'
    /\ Succeeded' =>
           ~HasUnsupported(tl, TrackKindVideo) /\ ~HasUnsupported(tl, TrackKindAudio)

C16_UnsupportedFails == [][C16_UnsupportedStep]_vars

\* The same for the video-kind tracks alone.
C16_UnsupportedVideoStep ==
    /\ (Encoding /\ VideoItem.kind \notin SupportedKinds) => UnsupportedError'
    /\ Succeeded' => ~HasUnsupported(tl, TrackKindVideo)

C16_UnsupportedVideoFails == [][C16_UnsupportedVideoStep]_vars

(* C17: Encode fails with an error, and produces no document, whenever any *)
(* clip, gap or stack among the children of the timeline's video or audio  *)
(* tracks has no computable duration.                                      *)

NoDuration(item) == item.kind \in SupportedKinds /\ Duration(item).err # ""

LacksDuration(t, kind) ==
    /\ t.tracks # Nil
    /\ \E i \in 1..Len(ChildrenOfKind(StackOf(t), kind)) :
           NoDuration(ChildrenOfKind(StackOf(t), kind)[i])

Returned == epc \in {"write", "done", "failed"}

NoDocument == epc = "failed" /\ eerr # <<>> /\ document = Nil /\ written = <<>>

C17_NoDurationFails ==
    (Returned /\ (LacksDuration(tl, TrackKindVideo) \/ LacksDuration(tl, TrackKindAudio)))
        => NoDocument

\* The same for the video-kind tracks alone.
C17_NoDurationVideoFails ==
    (Returned /\ LacksDuration(tl, TrackKindVideo)) => NoDocument

(* C23: whenever Encode fails during conversion (the root stack is absent, *)
(* an item kind is unsupported, or a duration cannot be obtained) it       *)
(* returns the error without having written any byte, the XML header       *)
(* included, to the output writer.                                         *)

NoTracksError == eerr = <<"no tracks in timeline">>

DurationError ==
    /\ Len(eerr) = 2
    /\ eerr[1] \in {"failed to get clip duration", "failed to get gap duration",
                    "failed to get stack duration"}

ConversionFailed ==
    epc = "failed" /\ (NoTracksError \/ eerr[1] = "unsupported item type" \/ DurationError)

C23_NothingWrittenOnFailure ==
    /\ epc = "failed" => ConversionFailed
    /\ ConversionFailed => written = <<>> /\ document = Nil
    /\ written # <<>> => epc = "done" /\ eerr = <<>>

\* Reached: the first video item was converted, the second is of an unsupported
\* kind; Encode has returned the error and the writer has received nothing.
C23_Witness ==
    /\ epc = "failed"
    /\ eerr = <<"unsupported item type", "Transition">>
    /\ Len(spineItems) = 1
    /\ written = <<>>

\* Reached: the failure on an absent root stack.
C23_NoTracks == epc = "failed" /\ NoTracksError /\ written = <<>>

\* Reached: the failure on a gap without a duration.
C23_NoDuration ==
    epc = "failed" /\ eerr[1] = "failed to get gap duration" /\ written = <<>>

(* C18: Encode maps every Stack item to a RefClip spine entry and never to *)
(* a Clip / Video entry; the RefClip's ref is the string stored under the  *)
(* stack's fcpx_ref metadata key when present, and the fixed default id    *)
(* "r1" when the metadata or that key is absent or not a string.           *)

HasStringRef(stack) ==
    /\ stack.metadata # Nil
    /\ "fcpx_ref" \in DOMAIN stack.metadata
    /\ stack.metadata["fcpx_ref"].type = "string"

C18_StackStep ==
    (Encoding /\ VideoItem.kind = "Stack") =>
        /\ Duration(VideoItem).err = "" => epc' = "items"
        /\ epc' = "items" =>
               /\ Grows(spineItems, spineItems', 1)
               /\ Last(spineItems').type = "RefClip"
               /\ Last(spineItems').Name = VideoItem.name
               /\ Last(spineItems').Ref =
                      (IF HasStringRef(VideoItem)
                       THEN VideoItem.metadata["fcpx_ref"].value ELSE "r1")
               /\ VideoItem.name \in {"No metadata", "Other key", "Number"} =>
                      Last(spineItems').Ref = "r1"
               /\ VideoItem.name = "Both keys" => Last(spineItems').Ref = "r7"

C18_StackToRefClip == [][C18_StackStep]_vars

\* Reached: a stack whose fcpx_ref is a number is a ref-clip with ref "r1".
C18_Witness ==
    /\ epc = "items" /\ ci = 2
    /\ videoItems[1].kind = "Stack"
    /\ videoItems[1].metadata # Nil
    /\ videoItems[1].metadata["fcpx_ref"].type = "int"
    /\ Len(spineItems) = 1
    /\ spineItems[1].type = "RefClip" /\ spineItems[1].Ref = "r1"

(* C20: the encoded spine has exactly one entry per child of the           *)
(* timeline's video-kind tracks, in the order obtained by concatenating    *)
(* those tracks' children track after track; children of audio-kind        *)
(* tracks, of tracks of any other kind, and non-track children of the      *)
(* root stack never add a spine entry.                                     *)

\* The spine of the document Encode built.
EncodedSpine == document[1].Project[1].Sequence[1].Spine[1].Items

EntryType(kind) ==
    CASE kind = "Clip" -> "Video" [] kind = "Gap" -> "Gap" [] kind = "Stack" -> "RefClip"

Names(entries) == [i \in 1..Len(entries) |-> entries[i].Name]

C20_SpineOfVideoTracks ==
    Succeeded =>
        /\ Len(EncodedSpine) = Len(ChildrenOfKind(StackOf(tl), TrackKindVideo))
        /\ \A i \in 1..Len(EncodedSpine) :
               /\ EncodedSpine[i].Name =
                      ChildrenOfKind(StackOf(tl), TrackKindVideo)[i].name
               /\ EncodedSpine[i].type =
                      EntryType(ChildrenOfKind(StackOf(tl), TrackKindVideo)[i].kind)

\* Reached: two video tracks with an audio track between them; the spine holds the
\* first track's two children, then the second track's one.
C20_Witness ==
    /\ epc = "done"
    /\ Len(StackOf(tl)) = 3
    /\ StackOf(tl)[1] = NewTrack("Video 1", TrackKindVideo, <<VClip, VGap>>)
    /\ StackOf(tl)[2] = NewTrack("Audio 1", TrackKindAudio, <<AClip>>)
    /\ StackOf(tl)[3] = NewTrack("Video 2", TrackKindVideo, <<VStack>>)
    /\ Names(EncodedSpine) = <<"Clip 1", "Gap", "compound_clip_1">>

----------------------------------------------------------------------------
(* Properties of Encode followed by Decode (RoundTripSpec).                *)

\* A clip, gap or stack whose source range has a whole duration at a whole rate
\* of at least 1.
WholeDuration(item) ==
    /\ item.kind \in SupportedKinds
    /\ item.source_range # Nil
    /\ ~InHalves(item.source_range.duration)
    /\ item.source_range.duration.rate >= 1

\* The root stack holds one video track of such items.
OneVideoTrack(t) ==
    /\ t.tracks # Nil
    /\ Len(StackOf(t)) = 1
    /\ IsTrack(StackOf(t)[1]) /\ StackOf(t)[1].kind = TrackKindVideo
    /\ \A i \in 1..Len(StackOf(t)[1].children) :
           WholeDuration(StackOf(t)[1].children[i])

Original == StackOf(tl)[1].children

\* Decode has returned on what Encode wrote.
DecodeReturned == epc = "done" /\ pc \in {"done", "failed"}

\* The decoded timeline has the name of the original and a first track of video
\* kind whose children have the kinds, names and durations of the original's.
VideoTrackPreserved ==
    /\ pc = "done" /\ err = <<>> /\ timeline # Nil
    /\ timeline[1].name = tl.name
    /\ Len(Tracks) >= 1
    /\ Tracks[1].kind = TrackKindVideo
    /\ Len(Tracks[1].children) = Len(Original)
    /\ \A i \in 1..Len(Original) :
           /\ Tracks[1].children[i].kind = Original[i].kind
           /\ Tracks[1].children[i].name = Original[i].name
           /\ Tracks[1].children[i].source_range.duration =
                  Original[i].source_range.duration

(* C24 (as written): encode-then-decode preserves the video track: for     *)
(* every timeline whose root stack holds one video track of clips, gaps    *)
(* and stacks whose source ranges have integer durations at integer rates  *)
(* >= 1, decoding the encoder's output succeeds, keeps the timeline name,  *)
(* and yields a video track whose children have the same sequence of       *)
(* kinds, names and source-range durations as the original.                *)

C24_RoundTrip == (DecodeReturned /\ OneVideoTrack(tl)) => VideoTrackPreserved

(* C24 (amended): the same for every such timeline whose video track has   *)
(* at least one child; for an empty video track decoding succeeds, keeps   *)
(* the timeline name and yields a timeline without any track.              *)

C24_RoundTripNonEmpty ==
    (DecodeReturned /\ OneVideoTrack(tl)) =>
        IF Original # <<>> THEN VideoTrackPreserved
        ELSE /\ pc = "done" /\ err = <<>> /\ timeline # Nil
             /\ timeline[1].name = tl.name
             /\ Tracks = <<>>

\* Reached: a clip with a marker, a gap and a stack were written and read back as
\* a clip, a gap and a stack of the same names and durations.
C24_Witness ==
    /\ DecodeReturned /\ OneVideoTrack(tl)
    /\ Original = <<VClip, VGap, VStack>>
    /\ pc = "done"
    /\ ChildNames(Tracks[1].children) = <<"Clip 1", "Gap", "compound_clip_1">>
    /\ Tracks[1].children[1].source_range.duration = [value |-> 1200, rate |-> 24]
    /\ Tracks[1].children[3].kind = "Stack"

====
